---- MODULE Spec2Model ----
(***************************************************************************)
(* poof: the ticket exchange protocol (core/protocol.rs, core/ticket.rs),  *)
(* the host and key registries with their TOML files (core/hosts.rs,       *)
(* core/config.rs) and the Catch command of run (core/mod.rs).             *)
(*                                                                         *)
(* Byte strings are sequences of byte values 0..255 (ASCII codes for the   *)
(* text the program handles).  An Option<T> is a sequence of length 0      *)
(* (None) or 1 (Some).  One action is the completion of one await point of *)
(* an async fn together with the synchronous code that follows it, up to   *)
(* the next await point.                                                   *)
(***************************************************************************)
EXTENDS Integers, Sequences, FiniteSets, TLC

(***************************************************************************)
(* Bounds of the model.                                                    *)
(***************************************************************************)
\* number of bytes of a content digest (32 in iroh_blobs; scaled down)
HashBytes == 4
\* number of calls of PoofProtocol::send the serving process makes
MaxDrops == 2
\* number of HostManager / KeyManager calls one process makes
MaxCalls == 4
\* the latest second the clock reaches
MaxClock == 2

(***************************************************************************)
(* Program constants.                                                      *)
(***************************************************************************)
\* Ticket::generate_query takes &hash[..6]
QueryLen == 6
\* receive calls connect_with_retry(node_id, 3)
Retries == 3
\* tokio::time::sleep(Duration::from_secs(2))
RetryDelaySecs == 2
\* receive falls back to &ticket.hash[..8] as the file name
FileStemLen == 8
\* ResponseCode discriminants
CodeOk == 0
CodeNotFound == 1
CodeError == 2

None == <<>>
Some(x) == <<x>>

\* the connections the serving process accepts: two concurrent handlers
Handlers == {1, 2}
\* the handler that serves the connection of the catching process
ClientConn == CHOOSE h \in Handlers : \A g \in Handlers : h <= g

(***************************************************************************)
(* Text as bytes.                                                          *)
(***************************************************************************)
Pad(n, b) == [i \in 1..n |-> b]
Take(s, n) == SubSeq(s, 1, n)

\* data_encoding::HEXLOWER digit of a nibble
HexDigit(n) == IF n < 10 THEN 48 + n ELSE 87 + n
IsHexDigit(c) == (48 <= c /\ c <= 57) \/ (97 <= c /\ c <= 102) \/ (65 <= c /\ c <= 70)
HexVal(c) == IF c <= 57 THEN c - 48 ELSE IF c >= 97 THEN c - 87 ELSE c - 55

\* Hash::to_string: lower-case hex of the digest bytes
HashToString(d) ==
  [i \in 1..(2 * Len(d)) |->
     IF i % 2 = 1 THEN HexDigit(d[(i + 1) \div 2] \div 16)
                  ELSE HexDigit(d[i \div 2] % 16)]

\* Hash::from_str succeeds on the hex form of a digest and on nothing else
HashStrValid(s) ==
  /\ Len(s) = 2 * HashBytes
  /\ \A i \in 1..Len(s) : IsHexDigit(s[i])

HashFromStr(s) ==
  [i \in 1..HashBytes |-> 16 * HexVal(s[2 * i - 1]) + HexVal(s[2 * i])]

\* String::from_utf8 on the model's alphabet: ASCII is valid, 0x80.. alone is not
Utf8Valid(b) == \A i \in 1..Len(b) : b[i] < 128

\* tokio write_u32 / read_u32: big-endian.  Every length of the model is far
\* below 2^31, where `len() as u32` is the length itself.
EncodeU32(n) ==
  << (n \div 16777216) % 256, (n \div 65536) % 256, (n \div 256) % 256, n % 256 >>
DecodeU32(b) == ((b[1] * 256 + b[2]) * 256 + b[3]) * 256 + b[4]

(***************************************************************************)
(* Ticket and ResponseCode (core/ticket.rs).                               *)
(***************************************************************************)
GenerateQueryShort(hash) == Take(hash, QueryLen - 1)
GenerateQuery(hash) == Take(hash, QueryLen)

TicketNew(d) ==
  [hash |-> HashToString(d), query |-> GenerateQuery(HashToString(d)),
   filename |-> None]

WithFilename(t, f) == [t EXCEPT !.filename = f]

\* Option<ResponseCode> as "Ok" | "NotFound" | "Error" | "None"
FromU8Lax(v) ==
  IF v = 0 THEN "Ok" ELSE IF v = 1 THEN "NotFound" ELSE "Error"
FromU8(v) ==
  IF v = 0 THEN "Ok"
  ELSE IF v = 1 THEN "NotFound"
  ELSE IF v = 2 THEN "Error"
  ELSE "None"

ToU8Swapped(c) ==
  IF c = "Ok" THEN CodeOk ELSE IF c = "NotFound" THEN CodeError ELSE CodeNotFound
ToU8(c) ==
  IF c = "Ok" THEN CodeOk ELSE IF c = "NotFound" THEN CodeNotFound ELSE CodeError

(***************************************************************************)
(* facet_msgpack::to_vec / from_slice of a Ticket: a 3-entry map keyed by  *)
(* field name; strings as fixstr / str8, None as nil.                      *)
(***************************************************************************)
KeyHash == <<104, 97, 115, 104>>
KeyQuery == <<113, 117, 101, 114, 121>>
KeyFilename == <<102, 105, 108, 101, 110, 97, 109, 101>>

MpStr(s) == IF Len(s) <= 31 THEN <<160 + Len(s)>> \o s ELSE <<217, Len(s)>> \o s
MpNil == <<192>>
MpMap3 == <<131>>

SerializeTicket(t) ==
  MpMap3 \o MpStr(KeyHash) \o MpStr(t.hash)
         \o MpStr(KeyQuery) \o MpStr(t.query)
         \o MpStr(KeyFilename)
         \o (IF t.filename = None THEN MpNil ELSE MpStr(t.filename[1]))

\* a string read at index i of b: [ok, val, next]
MpReadStrAt(b, i) ==
  IF i > Len(b) THEN [ok |-> FALSE, val |-> <<>>, next |-> i]
  ELSE IF b[i] >= 160 /\ b[i] <= 191
    THEN IF i + (b[i] - 160) <= Len(b)
           THEN [ok |-> TRUE, val |-> SubSeq(b, i + 1, i + (b[i] - 160)),
                 next |-> i + 1 + (b[i] - 160)]
           ELSE [ok |-> FALSE, val |-> <<>>, next |-> i]
  ELSE IF b[i] = 217 /\ i + 1 <= Len(b)
    THEN IF i + 1 + b[i + 1] <= Len(b)
           THEN [ok |-> TRUE, val |-> SubSeq(b, i + 2, i + 1 + b[i + 1]),
                 next |-> i + 2 + b[i + 1]]
           ELSE [ok |-> FALSE, val |-> <<>>, next |-> i]
  ELSE [ok |-> FALSE, val |-> <<>>, next |-> i]

\* the same with the index computed once
MpReadStr(b, i) == CHOOSE r \in {MpReadStrAt(b, j) : j \in {i}} : TRUE

\* [ok, ticket]
DeserializeTicket(b) ==
  LET bad == [ok |-> FALSE, ticket |-> [hash |-> <<>>, query |-> <<>>, filename |-> None]]
      k1 == MpReadStr(b, 2)
      v1 == MpReadStr(b, k1.next)
      k2 == MpReadStr(b, v1.next)
      v2 == MpReadStr(b, k2.next)
      k3 == MpReadStr(b, v2.next)
      v3 == MpReadStr(b, k3.next)
  IN IF Len(b) = 0 \/ b[1] # 131 THEN bad
     ELSE IF ~(k1.ok /\ v1.ok /\ k2.ok /\ v2.ok /\ k3.ok) THEN bad
     ELSE IF k1.val # KeyHash \/ k2.val # KeyQuery \/ k3.val # KeyFilename THEN bad
     ELSE IF k3.next <= Len(b) /\ b[k3.next] = 192 /\ k3.next = Len(b)
       THEN [ok |-> TRUE,
             ticket |-> [hash |-> v1.val, query |-> v2.val, filename |-> None]]
     ELSE IF v3.ok /\ v3.next = Len(b) + 1 /\ Utf8Valid(v3.val)
       THEN [ok |-> TRUE,
             ticket |-> [hash |-> v1.val, query |-> v2.val, filename |-> Some(v3.val)]]
     ELSE bad

(***************************************************************************)
(* Inputs.                                                                 *)
(***************************************************************************)
Digest(p, fill) == p \o Pad(HashBytes - 3, fill)
\* H1 and H2 share their first six hex digits, H3 does not
H1 == Digest(<<171, 193, 35>>, 0)
H2 == Digest(<<171, 193, 35>>, 255)
H3 == Digest(<<222, 244, 86>>, 0)

\* the files the serving process may drop: digest and file name
DropInputs ==
  { [hash |-> H1, filename |-> Some(<<97>>)],
    [hash |-> H2, filename |-> None],
    [hash |-> H3, filename |-> Some(<<98>>)] }

QueryAbc == GenerateQuery(HashToString(H1))
QueryZzz == Pad(6, 122)
QueryEmpty == <<>>

Nodes == {"n1", "n2"}

\* the catches the user may run: peer, query, output path
CatchInputs ==
  { [node |-> "n1", query |-> QueryAbc, out |-> None],
    [node |-> "n2", query |-> QueryAbc, out |-> Some(<<111>>)],
    [node |-> "n1", query |-> QueryZzz, out |-> None],
    [node |-> "n2", query |-> QueryEmpty, out |-> None] }


\* the processes (invocations of the program) that work on the configuration
Procs == {1, 2}
\* the process of the user's command line
Cli == CHOOSE p \in Procs : \A q \in Procs : p <= q

\* host aliases and key names the user may type
Aliases == {"a", "b"}
KeyNames == {"default", "k1", "k2"}

(***************************************************************************)
(* State.                                                                  *)
(***************************************************************************)
VARIABLES
  tickets,   \* PoofProtocol.tickets: DashMap<String, Ticket> of the serving process
  dropper,   \* the serving process's call of PoofProtocol::send
  client,    \* the catching process's call of PoofProtocol::receive
  handler,   \* handler[h]: one future of PoofProtocol::accept per connection
  c2s,       \* c2s[h]: request direction of the stream of connection h
  s2c,       \* s2c[h]: response direction of the stream of connection h
  peer,      \* peer[h]: who holds the far end of connection h
  hosts_toml, \* the file CONFIG_DIRECTORY/hosts.toml
  keys_toml,  \* the file CONFIG_DIRECTORY/keys.toml
  now,        \* SystemTime::now() in seconds since the epoch
  proc,       \* proc[p]: the HostManager / KeyManager call process p is in
  run         \* the command that run executes in the process Cli

\* the exchange over the network, and the configuration on disk
net == <<tickets, dropper, client, handler, c2s, s2c, peer>>
disk == <<hosts_toml, keys_toml, now, proc, run>>

vars == <<tickets, dropper, client, handler, c2s, s2c, peer,
          hosts_toml, keys_toml, now, proc, run>>

NoTicket == [hash |-> <<>>, query |-> <<>>, filename |-> None]
NoErr == [kind |-> "none", attempt |-> 0, at |-> "none"]
EmptyStream == [data |-> <<>>, fin |-> FALSE]

InitDropper ==
  [pc |-> "idle", hash |-> <<>>, filename |-> None, ticket |-> None,
   ret |-> "none", n |-> 0]

InitClient ==
  [pc |-> "idle", node |-> "none", query |-> <<>>, out |-> None,
   attempts |-> 0, connects |-> 0, slept |-> 0, server |-> "none",
   sent |-> 0, rd |-> 0, code |-> "none", size |-> 0, ticket |-> None,
   download |-> None, export |-> None, ret |-> "none", err |-> NoErr]

\* config_path() does not exist
MissingFile == [kind |-> "missing"]

NoArgs == [alias |-> "", public_key |-> "", description |-> None, new_alias |-> ""]
NoConfig == [kind |-> "none"]

\* a process that is in no manager call; ret, err and value are what its last
\* call returned, saves counts the fs::write calls it made
InitProc ==
  [pc |-> "idle", op |-> "none", args |-> NoArgs, config |-> NoConfig,
   ret |-> "none", err |-> "none", value |-> None, saves |-> 0, n |-> 0]

\* run has not reached the match on opts.command; generated records the log
\* line "No key provided, generated a new default key"
InitRun ==
  [pc |-> "idle", host |-> "", query |-> <<>>, out |-> None, node |-> None,
   ret |-> "none", err |-> "none", key |-> None, sk |-> None,
   generated |-> FALSE]

InitHandler ==
  [pc |-> "listening", rd |-> 0, query_size |-> 0, query |-> None,
   ticket |-> None, lookups |-> 0, ret |-> "none", err |-> "none"]

Init ==
  /\ tickets = [q \in {} |-> NoTicket]
  /\ dropper = InitDropper
  /\ client = InitClient
  /\ handler = [h \in Handlers |-> InitHandler]
  /\ c2s = [h \in Handlers |-> EmptyStream]
  /\ s2c = [h \in Handlers |-> EmptyStream]
  /\ peer = [h \in Handlers |-> "none"]
  /\ hosts_toml = MissingFile
  /\ keys_toml = MissingFile
  /\ now = 0
  /\ proc = [p \in Procs |-> InitProc]
  /\ run = InitRun

(***************************************************************************)
(* Ticket Registry: DashMap get / insert.                                  *)
(***************************************************************************)
\* tickets.get(&query): Option<Ref>
Get(q) == IF q \in DOMAIN tickets THEN Some(tickets[q]) ELSE None

\* tickets.insert(key, ticket): overwrites
InsertIfAbsent(k, t) ==
  [q \in (DOMAIN tickets) \cup {k} |-> IF q \in DOMAIN tickets THEN tickets[q] ELSE t]
Insert(k, t) == [q \in (DOMAIN tickets) \cup {k} |-> IF q = k THEN t ELSE tickets[q]]

\* the handlers that hold the Ref returned by tickets.get: the if-let body of
\* accept runs under it, across the three writes of the Ok response
HoldsRef(h) == handler[h].pc \in {"w_ok_code", "w_ok_len", "w_ok_body"}

\* insert takes the write lock of the key's shard, which waits for every Ref
\* into that shard.  A Ref of the same key is always in the shard; whether
\* another key shares it depends on the process's random hasher, so that
\* case is left open (the insert may go through).
ShardLocked(k) == \E h \in Handlers : HoldsRef(h) /\ handler[h].query = Some(k)

(***************************************************************************)
(* PoofProtocol::send (drop).                                              *)
(***************************************************************************)
\* send is called; blobs.add_from_path(..) is awaited
SendStart(inp) ==
  /\ dropper.pc = "idle"
  /\ dropper.n < MaxDrops
  /\ dropper' = [dropper EXCEPT !.pc = "add_from_path", !.hash = inp.hash,
                                !.filename = inp.filename, !.ticket = None,
                                !.ret = "none"]
  /\ UNCHANGED <<tickets, client, handler, c2s, s2c, peer, disk>>

\* add_from_path fails: `?` returns the error, nothing is inserted
SendIngestErr ==
  /\ dropper.pc = "add_from_path"
  /\ dropper' = [dropper EXCEPT !.pc = "idle", !.ret = "Err", !.n = @ + 1,
                                !.hash = <<>>, !.filename = None]
  /\ UNCHANGED <<tickets, client, handler, c2s, s2c, peer, disk>>

\* add_from_path yields the digest; the ticket is built and insert is entered
SendIngested ==
  /\ dropper.pc = "add_from_path"
  /\ dropper' = [dropper EXCEPT
        !.pc = "insert",
        !.ticket = Some(WithFilename(TicketNew(dropper.hash), dropper.filename))]
  /\ UNCHANGED <<tickets, client, handler, c2s, s2c, peer, disk>>

SendInsertKey(t) == t.query

\* insert gets the shard and send returns Ok(ticket)
SendInsert ==
  /\ dropper.pc = "insert"
  /\ ~ShardLocked(SendInsertKey(dropper.ticket[1]))
  /\ tickets' = Insert(SendInsertKey(dropper.ticket[1]), dropper.ticket[1])
  /\ dropper' = [dropper EXCEPT !.pc = "idle", !.ret = "Ok", !.n = @ + 1,
                                !.hash = <<>>, !.filename = None]
  /\ UNCHANGED <<client, handler, c2s, s2c, peer, disk>>

Send ==
  \/ \E inp \in DropInputs : SendStart(inp)
  \/ SendIngestErr
  \/ SendIngested
  \/ SendInsert


(***************************************************************************)
(* PoofProtocol::receive (catch) and connect_with_retry.                   *)
(***************************************************************************)
Avail(stream, rd) == Len(stream.data) - rd
Bytes(stream, rd, n) == SubSeq(stream.data, rd + 1, rd + n)

\* receive returns: Ok(()) or Err(e)
ClientReturn(r, e) == [client EXCEPT !.pc = "done", !.ret = r, !.err = e]

\* receive(node_id, query, out_file) is called: connect_with_retry starts with
\* attempts = 0 and awaits endpoint.connect
ReceiveCall(node, q, out) ==
  /\ client.pc = "idle"
  /\ client' = [client EXCEPT !.pc = "connecting", !.node = node, !.query = q,
                              !.out = out, !.attempts = 0]

ReceiveStart(node, q, out) ==
  /\ ReceiveCall(node, q, out)
  /\ UNCHANGED <<tickets, dropper, handler, c2s, s2c, peer, disk>>

\* `Err(_) if attempts < retries`
MayRetryOneMore(attempts, retries) == attempts <= retries
MayRetry(attempts, retries) == attempts < retries

\* endpoint.connect returns Ok(connection): the far end is this program's
\* accept handler or some other peer speaking on the ALPN
ConnectOk(far) ==
  /\ client.pc = "connecting"
  /\ far = "handler" => peer[ClientConn] = "none"
  /\ client' = [client EXCEPT !.pc = "open_bi", !.connects = @ + 1, !.server = far]
  /\ peer' = IF far = "handler" THEN [peer EXCEPT ![ClientConn] = "client"] ELSE peer
  /\ UNCHANGED <<tickets, dropper, handler, c2s, s2c, disk>>

\* endpoint.connect returns Err: retry after the sleep, or give the error up
\* to receive, which wraps it ("Failed to connect to node: {e}")
ConnectErr ==
  /\ client.pc = "connecting"
  /\ IF MayRetry(client.attempts, Retries)
       THEN client' = [client EXCEPT !.pc = "sleeping", !.connects = @ + 1,
                                     !.attempts = @ + 1]
       ELSE client' = [client EXCEPT
                         !.pc = "done", !.connects = @ + 1, !.ret = "Err",
                         !.err = [kind |-> "connect", attempt |-> client.connects + 1,
                                  at |-> "connecting"]]
  /\ UNCHANGED <<tickets, dropper, handler, c2s, s2c, peer, disk>>

RetrySleepBackoff ==
  /\ client.pc = "sleeping"
  /\ client' = [client EXCEPT !.pc = "connecting",
                              !.slept = @ + RetryDelaySecs * client.attempts]
  /\ UNCHANGED <<tickets, dropper, handler, c2s, s2c, peer, disk>>

\* the sleep of 2 seconds is over; the loop connects again
RetrySleep ==
  /\ client.pc = "sleeping"
  /\ client' = [client EXCEPT !.pc = "connecting", !.slept = @ + RetryDelaySecs]
  /\ UNCHANGED <<tickets, dropper, handler, c2s, s2c, peer, disk>>

\* connection.open_bi()
OpenBi ==
  /\ client.pc = "open_bi"
  /\ client' = [client EXCEPT !.pc = "write_len"]
  /\ UNCHANGED <<tickets, dropper, handler, c2s, s2c, peer, disk>>

\* send.write_u32(query.len() as u32)
WriteLen ==
  /\ client.pc = "write_len"
  /\ c2s' = [c2s EXCEPT ![ClientConn].data = @ \o EncodeU32(Len(client.query))]
  /\ client' = [client EXCEPT !.pc = "write_query"]
  /\ UNCHANGED <<tickets, dropper, handler, s2c, peer, disk>>

\* send.write_all(query.as_bytes()), then send.finish()
WriteQuery ==
  /\ client.pc = "write_query"
  /\ c2s' = [c2s EXCEPT ![ClientConn].data = @ \o client.query,
                        ![ClientConn].fin = TRUE]
  /\ client' = [client EXCEPT !.pc = "stopped", !.sent = @ + 1]
  /\ UNCHANGED <<tickets, dropper, handler, s2c, peer, disk>>

\* send.stopped() is over once the far endpoint has acknowledged all bytes
\* and the FIN of the finished stream, or once the far side has stopped the
\* stream, which it does when it drops its receiving half (far_gone).  The
\* acknowledgment is made by the far transport on delivery, whether or not
\* the far application has read the bytes: on a stream that delivers, it is
\* there as soon as the stream is finished.
AckedOnDrop(stream, far_gone) == far_gone
Acked(stream, far_gone) == stream.fin \/ far_gone

\* send.stopped(): the peer's transport has acknowledged the request bytes
AwaitStopped ==
  /\ client.pc = "stopped"
  /\ Acked(c2s[ClientConn],
           client.server = "handler" => handler[ClientConn].pc = "closed")
  /\ client' = [client EXCEPT !.pc = "read_code"]
  /\ UNCHANGED <<tickets, dropper, handler, c2s, s2c, peer, disk>>

\* what receive does with a response code that is not Ok: all three arms log
\* and fall through to Ok(())
AfterCode(code) ==
  IF code = "Ok" THEN [client EXCEPT !.pc = "read_size"]
  ELSE IF code = "NotFound" THEN ClientReturn("Ok", NoErr)
  ELSE IF code = "Error" THEN ClientReturn("Ok", NoErr)
  ELSE ClientReturn("Ok", NoErr)

\* recv.read_u8(), ResponseCode::from_u8 and the match
ReadCode ==
  /\ client.pc = "read_code"
  /\ Avail(s2c[ClientConn], client.rd) >= 1
  /\ LET code == FromU8(Bytes(s2c[ClientConn], client.rd, 1)[1])
     IN client' = [AfterCode(code) EXCEPT !.code = code, !.rd = client.rd + 1]
  /\ UNCHANGED <<tickets, dropper, handler, c2s, s2c, peer, disk>>

\* recv.read_u32() as usize
ReadSize ==
  /\ client.pc = "read_size"
  /\ Avail(s2c[ClientConn], client.rd) >= 4
  /\ client' = [client EXCEPT !.pc = "read_body", !.rd = @ + 4,
                              !.size = DecodeU32(Bytes(s2c[ClientConn], client.rd, 4))]
  /\ UNCHANGED <<tickets, dropper, handler, c2s, s2c, peer, disk>>

\* blobs.download(ticket.hash(), node_id.into())
DownloadCall(t, node) == [hash |-> HashFromStr(t.hash), from |-> node]

\* recv.read_exact(&mut buffer), facet_msgpack::from_slice, then ticket.hash()
\* (which panics on a string Hash::from_str rejects) and the download call
ReadBody ==
  /\ client.pc = "read_body"
  /\ Avail(s2c[ClientConn], client.rd) >= client.size
  /\ \E d \in {DeserializeTicket(Bytes(s2c[ClientConn], client.rd, client.size))} :
     LET c == [client EXCEPT !.rd = @ + client.size]
     IN client' =
          IF ~d.ok
            THEN [c EXCEPT !.pc = "done", !.ret = "Err",
                           !.err = [kind |-> "deserialize", attempt |-> 0,
                                    at |-> "read_body"]]
          ELSE IF ~HashStrValid(d.ticket.hash)
            THEN [c EXCEPT !.pc = "done", !.ret = "Panic", !.ticket = Some(d.ticket)]
          ELSE [c EXCEPT !.pc = "download", !.ticket = Some(d.ticket),
                         !.download = Some(DownloadCall(d.ticket, client.node))]
  /\ UNCHANGED <<tickets, dropper, handler, c2s, s2c, peer, disk>>

\* the file receive exports to
ExportFile(t, out) ==
  IF out # None THEN out[1]
  ELSE IF t.filename # None THEN t.filename[1]
  ELSE Take(t.hash, FileStemLen)

\* the download is over; blobs.export(ticket.hash(), file, ..) is called
DownloadDone ==
  /\ client.pc = "download"
  /\ client' = [client EXCEPT
        !.pc = "export",
        !.export = Some([hash |-> HashFromStr(client.ticket[1].hash),
                         file |-> ExportFile(client.ticket[1], client.out)])]
  /\ UNCHANGED <<tickets, dropper, handler, c2s, s2c, peer, disk>>

\* the export is over; receive returns Ok(())
ExportDone ==
  /\ client.pc = "export"
  /\ client' = ClientReturn("Ok", NoErr)
  /\ UNCHANGED <<tickets, dropper, handler, c2s, s2c, peer, disk>>

\* the awaits of receive after the connection is there; each ends in `?`
ClientStreamAwaits ==
  {"open_bi", "write_len", "write_query", "stopped", "read_code", "read_size",
   "read_body", "download", "export"}

\* where receive goes when one of these awaits yields Err
OnStreamErrReconnect(at) ==
  [client EXCEPT !.pc = "connecting", !.attempts = 0]
OnStreamErr(at) ==
  ClientReturn("Err", [kind |-> "io", attempt |-> 0, at |-> at])

\* an await on the connection, a stream or the blob store yields Err
ClientIoErr ==
  /\ client.pc \in ClientStreamAwaits
  /\ client' = OnStreamErr(client.pc)
  /\ UNCHANGED <<tickets, dropper, handler, c2s, s2c, peer, disk>>

\* the steps of receive after its call
ReceiveSteps ==
  \/ \E far \in {"handler", "raw"} : ConnectOk(far)
  \/ ConnectErr
  \/ RetrySleep
  \/ OpenBi
  \/ WriteLen
  \/ WriteQuery
  \/ AwaitStopped
  \/ ReadCode
  \/ ReadSize
  \/ ReadBody
  \/ DownloadDone
  \/ ExportDone
  \/ ClientIoErr

Receive ==
  \/ \E i \in CatchInputs : ReceiveStart(i.node, i.query, i.out)
  \/ ReceiveSteps


(***************************************************************************)
(* PoofProtocol::accept (the server's handler of one connection).          *)
(***************************************************************************)
HandlerReturn(h, r, e) ==
  [handler EXCEPT ![h].pc = "closed", ![h].ret = r, ![h].err = e]

\* the router hands a connection to accept; connection.accept_bi() is awaited
Accept(h) ==
  /\ handler[h].pc = "listening"
  /\ peer[h] # "none"
  /\ handler' = [handler EXCEPT ![h].pc = "accept_bi"]
  /\ UNCHANGED <<tickets, dropper, client, c2s, s2c, peer, disk>>

\* accept_bi yields the stream the peer opened (it shows once the peer wrote)
AcceptBi(h) ==
  /\ handler[h].pc = "accept_bi"
  /\ Len(c2s[h].data) > 0 \/ c2s[h].fin
  /\ handler' = [handler EXCEPT ![h].pc = "read_size"]
  /\ UNCHANGED <<tickets, dropper, client, c2s, s2c, peer, disk>>

\* `if query_size == 0`
IsEmptyQueryNever(n) == FALSE
IsEmptyQueryAlways(n) == n >= 0
IsEmptyQuery(n) == n = 0

\* recv.read_u32(); an empty query starts the Error response
ReadQuerySize(h) ==
  /\ handler[h].pc = "read_size"
  /\ Avail(c2s[h], handler[h].rd) >= 4
  /\ LET n == DecodeU32(Bytes(c2s[h], handler[h].rd, 4))
     IN handler' = [handler EXCEPT
          ![h].query_size = n, ![h].rd = @ + 4,
          ![h].pc = IF IsEmptyQuery(n) THEN "w_err_code" ELSE "read_query"]
  /\ UNCHANGED <<tickets, dropper, client, c2s, s2c, peer, disk>>

\* `if let Some(ticket) = this.tickets.get(&query)`: the arm accept takes
LookupArmNoAnswer(found) == IF found # None THEN "w_ok_code" ELSE "stopped"
LookupArm(found) == IF found # None THEN "w_ok_code" ELSE "w_nf_code"

\* the registry after accept's lookup: DashMap::get only reads
RegistryAfterRemove(q) == [k \in (DOMAIN tickets) \ {q} |-> tickets[k]]
RegistryAfterGet(q) == tickets

\* recv.read_exact(&mut buf), String::from_utf8 (its Err is returned by `?`),
\* then the lookup
ReadQuery(h) ==
  /\ handler[h].pc = "read_query"
  /\ Avail(c2s[h], handler[h].rd) >= handler[h].query_size
  /\ LET buf == Bytes(c2s[h], handler[h].rd, handler[h].query_size)
         hd == [handler[h] EXCEPT !.rd = @ + handler[h].query_size]
     IN
     /\ handler' =
          IF ~Utf8Valid(buf)
            THEN [handler EXCEPT ![h] = [hd EXCEPT !.pc = "closed", !.ret = "Err",
                                                   !.err = "utf8"]]
            ELSE [handler EXCEPT ![h] =
                    [hd EXCEPT !.query = Some(buf), !.lookups = @ + 1,
                               !.ticket = Get(buf), !.pc = LookupArm(Get(buf))]]
     /\ tickets' = IF Utf8Valid(buf) THEN RegistryAfterGet(buf) ELSE tickets
  /\ UNCHANGED <<dropper, client, c2s, s2c, peer, disk>>

\* one write on the response stream is over, the next is awaited
HandlerWrite(h, at, bytes, next) ==
  /\ handler[h].pc = at
  /\ s2c' = [s2c EXCEPT ![h].data = @ \o bytes]
  /\ handler' = [handler EXCEPT ![h].pc = next]
  /\ UNCHANGED <<tickets, dropper, client, c2s, peer, disk>>

\* the last write of a response is over; send.finish() follows
HandlerWriteLast(h, at, bytes, next, r) ==
  /\ handler[h].pc = at
  /\ s2c' = [s2c EXCEPT ![h].data = @ \o bytes, ![h].fin = TRUE]
  /\ handler' = [handler EXCEPT ![h].pc = next, ![h].ret = r]
  /\ UNCHANGED <<tickets, dropper, client, c2s, peer, disk>>

\* the body accept writes for the ticket it found
OkBodyHashOnly(t) == t.hash
OkBody(t) == SerializeTicket(t)

\* send.write_u8(ResponseCode::Error.to_u8())
WriteErrCode(h) == HandlerWrite(h, "w_err_code", <<ToU8("Error")>>, "w_err_len")
\* send.write_u32(0); send.finish()?; return Ok(())
WriteErrLen(h) == HandlerWriteLast(h, "w_err_len", EncodeU32(0), "closed", "Ok")

\* send.write_u8(ResponseCode::Ok.to_u8())
WriteOkCode(h) == HandlerWrite(h, "w_ok_code", <<ToU8("Ok")>>, "w_ok_len")
\* send.write_u32(bytes.len() as u32)
WriteOkLen(h) ==
  HandlerWrite(h, "w_ok_len", EncodeU32(Len(OkBody(handler[h].ticket[1]))), "w_ok_body")
\* send.write_all(&bytes); the Ref is dropped; send.finish()
WriteOkBody(h) ==
  HandlerWriteLast(h, "w_ok_body", OkBody(handler[h].ticket[1]), "stopped", "none")

\* send.write_u8(ResponseCode::NotFound.to_u8())
WriteNotFoundCode(h) == HandlerWrite(h, "w_nf_code", <<ToU8("NotFound")>>, "w_nf_len")
\* send.write_u32(0); send.finish()
WriteNotFoundLenNoFinish(h) == HandlerWrite(h, "w_nf_len", EncodeU32(0), "stopped")
WriteNotFoundLen(h) == HandlerWriteLast(h, "w_nf_len", EncodeU32(0), "stopped", "none")

\* send.stopped() is over; accept returns Ok(())
HandlerStopped(h) ==
  /\ handler[h].pc = "stopped"
  /\ Acked(s2c[h], peer[h] = "client" => client.pc = "done")
  /\ handler' = HandlerReturn(h, "Ok", "none")
  /\ UNCHANGED <<tickets, dropper, client, c2s, s2c, peer, disk>>

HandlerAwaits ==
  {"accept_bi", "read_size", "read_query", "w_err_code", "w_err_len",
   "w_ok_code", "w_ok_len", "w_ok_body", "w_nf_code", "w_nf_len", "stopped"}

\* an await of accept yields Err (stream or connection error, or the stream
\* ended before the bytes a read waits for): `?` returns it
HandlerIoErr(h) ==
  /\ handler[h].pc \in HandlerAwaits
  /\ handler' = HandlerReturn(h, "Err", "io")
  /\ UNCHANGED <<tickets, dropper, client, c2s, s2c, peer, disk>>

HandlerStep(h) ==
  \/ Accept(h)
  \/ AcceptBi(h)
  \/ ReadQuerySize(h)
  \/ ReadQuery(h)
  \/ WriteErrCode(h)
  \/ WriteErrLen(h)
  \/ WriteOkCode(h)
  \/ WriteOkLen(h)
  \/ WriteOkBody(h)
  \/ WriteNotFoundCode(h)
  \/ WriteNotFoundLen(h)
  \/ HandlerStopped(h)
  \/ HandlerIoErr(h)

(***************************************************************************)
(* Peers that are not this program: any bytes may arrive on a stream.      *)
(***************************************************************************)
\* requests a remote peer may put on the stream it opens
RawRequests ==
  { EncodeU32(Len(QueryAbc)) \o QueryAbc,
    EncodeU32(Len(QueryZzz)) \o QueryZzz,
    EncodeU32(0),
    EncodeU32(2) \o <<255, 97>>,
    EncodeU32(6) \o <<97>> }

\* responses a remote peer may answer a catch with
RawResponses ==
  { <<3>> \o EncodeU32(0),
    <<255>>,
    <<>>,
    <<CodeOk>> \o EncodeU32(2) \o <<1, 2>>,
    <<CodeOk>> \o EncodeU32(5) \o <<1, 2>>,
    <<CodeOk>>
      \o EncodeU32(Len(SerializeTicket([hash |-> <<120, 121, 122>>, query |-> QueryAbc,
                                        filename |-> None])))
      \o SerializeTicket([hash |-> <<120, 121, 122>>, query |-> QueryAbc,
                          filename |-> None]) }

\* a remote peer connects, writes its request and finishes the stream
PeerRequest(h, r) ==
  /\ peer[h] = "none"
  /\ peer' = [peer EXCEPT ![h] = "raw"]
  /\ c2s' = [c2s EXCEPT ![h] = [data |-> r, fin |-> TRUE]]
  /\ UNCHANGED <<tickets, dropper, client, handler, s2c, disk>>

\* the remote peer the catch connected to writes its response
PeerRespond(r) ==
  /\ client.server = "raw"
  /\ s2c[ClientConn] = EmptyStream
  /\ s2c' = [s2c EXCEPT ![ClientConn] = [data |-> r, fin |-> TRUE]]
  /\ UNCHANGED <<tickets, dropper, client, handler, c2s, peer, disk>>

(***************************************************************************)
(* ConfigManager (core/config.rs): a configuration is loaded from its TOML *)
(* file and saved back to it.  A file is kept as the document facet_toml   *)
(* reads from it; text that does not parse is the kind "garbage".          *)
(***************************************************************************)
\* a load that takes text it cannot parse for an absent file
LoadLenient(file, default) ==
  IF file.kind = "toml" THEN [ok |-> TRUE, config |-> file.doc]
  ELSE [ok |-> TRUE, config |-> default]

\* ConfigManager::load: the default when the path does not exist, the parsed
\* document otherwise, Err when it does not parse
Load(file, default) ==
  IF file.kind = "missing" THEN [ok |-> TRUE, config |-> default]
  ELSE IF file.kind = "toml" THEN [ok |-> TRUE, config |-> file.doc]
  ELSE [ok |-> FALSE, config |-> default]

\* ConfigManager::save: what fs::write leaves in the file
Save(config) == [kind |-> "toml", doc |-> config]

\* the manager call of process p returns
Return(p, r, e, v) ==
  [proc EXCEPT ![p].pc = "idle", ![p].ret = r, ![p].err = e, ![p].value = v,
               ![p].config = NoConfig, ![p].n = @ + 1]

\* the same after save was called
ReturnSaved(p, r, e, v) ==
  [Return(p, r, e, v) EXCEPT ![p].saves = @ + 1]

\* what facet_toml::from_str fails on: hosts.toml was written by something
\* other than save (an editor, a truncated copy) and is not a document of the
\* schema
UnparsableFile == [kind |-> "garbage"]

\* hosts.toml is replaced from outside by text that does not parse
ForeignWrite ==
  /\ hosts_toml.kind # "garbage"
  /\ hosts_toml' = UnparsableFile
  /\ UNCHANGED <<net, keys_toml, now, proc, run>>

\* a manager call starts: self.load()? reads the file as it is now
ManagerLoad(p, file, default, op, args) ==
  /\ proc[p].pc = "idle"
  /\ proc[p].n < MaxCalls
  /\ LET l == Load(file, default)
         started == [proc EXCEPT ![p].op = op, ![p].args = args, ![p].ret = "none",
                                 ![p].err = "none", ![p].value = None]
     IN proc' = IF l.ok
                  THEN [started EXCEPT ![p].pc = op, ![p].config = l.config]
                  ELSE [started EXCEPT ![p].pc = "idle", ![p].ret = "Err",
                                       ![p].err = "parse", ![p].n = @ + 1]

(***************************************************************************)
(* Host registry (core/hosts.rs): Host, HostConfig, HostManager.           *)
(***************************************************************************)
\* PublicKey::to_string and PublicKey::from_str
PublicKeyToString(n) == IF n = "n1" THEN "pk1" ELSE IF n = "n2" THEN "pk2" ELSE "pk?"
PublicKeyFromStr(str) ==
  IF \E n \in Nodes : PublicKeyToString(n) = str
    THEN Some(CHOOSE n \in Nodes : PublicKeyToString(n) = str)
    ELSE None

\* HostConfig::default()
DefaultHostConfig == [hosts |-> [a \in {} |-> NoArgs]]

\* Host::new
HostNew(alias, public_key, description) ==
  [alias |-> alias, public_key |-> PublicKeyToString(public_key),
   description |-> description, added_at |-> now, last_seen |-> None,
   metadata |-> [k \in {} |-> ""]]

\* Host::update_last_seen
HostUpdateLastSeen(host) == [host EXCEPT !.last_seen = Some(now)]

MapInsert(m, k, v) == [x \in (DOMAIN m) \cup {k} |-> IF x = k THEN v ELSE m[x]]
MapRemove(m, k) == [x \in (DOMAIN m) \ {k} |-> m[x]]

\* `if self.hosts.contains_key(&host.alias)`
AliasTakenNever(config, alias) == FALSE
AliasTaken(config, alias) == alias \in DOMAIN config.hosts

\* the loop of add_host over self.hosts.values()
PublicKeyBoundNever(config, public_key) == FALSE
PublicKeyBound(config, public_key) ==
  \E a \in DOMAIN config.hosts : config.hosts[a].public_key = public_key

\* HostConfig::add_host
AddHost(config, host) ==
  IF AliasTaken(config, host.alias)
    THEN [ok |-> FALSE, err |-> "alias exists", config |-> config]
  ELSE IF PublicKeyBound(config, host.public_key)
    THEN [ok |-> FALSE, err |-> "public key exists", config |-> config]
  ELSE [ok |-> TRUE, err |-> "none",
        config |-> [config EXCEPT !.hosts = MapInsert(@, host.alias, host)]]

\* HostConfig::remove_host
RemoveHost(config, alias) ==
  IF alias \in DOMAIN config.hosts
    THEN [ok |-> TRUE, err |-> "none", host |-> Some(config.hosts[alias]),
          config |-> [config EXCEPT !.hosts = MapRemove(@, alias)]]
    ELSE [ok |-> FALSE, err |-> "not found", host |-> None, config |-> config]

\* HostConfig::get_host, HostConfig::get_host_mut
GetHost(config, alias) ==
  IF alias \in DOMAIN config.hosts THEN Some(config.hosts[alias]) ELSE None

\* a renamed host built anew, as Host::new would build it
RenamedHostFresh(host, new_alias) ==
  [host EXCEPT !.alias = new_alias, !.added_at = now, !.last_seen = None]

\* `host.alias = new_alias` on the host remove_host returned
RenamedHost(host, new_alias) == [host EXCEPT !.alias = new_alias]

\* HostConfig::update_host_alias
UpdateHostAliasUnchecked(config, old_alias, new_alias) ==
  LET removed == RemoveHost(config, old_alias)
  IN IF ~removed.ok THEN [ok |-> FALSE, err |-> removed.err, config |-> config]
     ELSE [ok |-> TRUE, err |-> "none",
           config |-> [config EXCEPT !.hosts =
                         MapInsert(MapRemove(@, old_alias), new_alias,
                                   RenamedHost(removed.host[1], new_alias))]]
UpdateHostAlias(config, old_alias, new_alias) ==
  IF AliasTaken(config, new_alias)
    THEN [ok |-> FALSE, err |-> "alias exists", config |-> config]
  ELSE LET removed == RemoveHost(config, old_alias)
       IN IF ~removed.ok THEN [ok |-> FALSE, err |-> removed.err, config |-> config]
          ELSE AddHost(removed.config, RenamedHost(removed.host[1], new_alias))

\* a save that would first read the file again and keep what others wrote
SaveHostsMerging(p, config, v) ==
  \/ /\ hosts_toml' =
          Save([hosts |-> [a \in DOMAIN config.hosts
                                   \cup DOMAIN Load(hosts_toml, config).config.hosts |->
                             IF a \in DOMAIN config.hosts THEN config.hosts[a]
                             ELSE Load(hosts_toml, config).config.hosts[a]]])
     /\ proc' = ReturnSaved(p, "Ok", "none", v)
  \/ /\ hosts_toml' = hosts_toml
     /\ proc' = ReturnSaved(p, "Err", "io", None)

\* self.save(&config) of a host call: fs::write replaces the file, or an io
\* error leaves the file and the call returns it
SaveHosts(p, config, v) ==
  \/ /\ hosts_toml' = Save(config)
     /\ proc' = ReturnSaved(p, "Ok", "none", v)
  \/ /\ hosts_toml' = hosts_toml
     /\ proc' = ReturnSaved(p, "Err", "io", None)

\* the arguments of the host calls
HostAddArgs ==
  { [alias |-> a, public_key |-> n, description |-> None, new_alias |-> ""] :
      a \in Aliases, n \in Nodes }
HostAliasArgs ==
  { [alias |-> a, public_key |-> "", description |-> None, new_alias |-> ""] :
      a \in Aliases }
HostRenameArgs ==
  { [alias |-> a, public_key |-> "", description |-> None, new_alias |-> b] :
      a \in Aliases, b \in Aliases \cup {"c"} }

\* a HostManager call is entered and loads hosts.toml
HostCall(p, op, args) ==
  /\ ManagerLoad(p, hosts_toml, DefaultHostConfig, op, args)
  /\ UNCHANGED <<net, hosts_toml, keys_toml, now, run>>

\* HostManager::add_host after its load
HostManagerAddHost(p) ==
  /\ proc[p].pc = "add_host"
  /\ LET a == proc[p].args
         r == AddHost(proc[p].config, HostNew(a.alias, a.public_key, a.description))
     IN \/ /\ ~r.ok
           /\ proc' = Return(p, "Err", r.err, None)
           /\ UNCHANGED hosts_toml
        \/ /\ r.ok
           /\ SaveHosts(p, r.config, None)
  /\ UNCHANGED <<net, keys_toml, now, run>>

\* HostManager::remove_host after its load
HostManagerRemoveHost(p) ==
  /\ proc[p].pc = "remove_host"
  /\ LET r == RemoveHost(proc[p].config, proc[p].args.alias)
     IN \/ /\ ~r.ok
           /\ proc' = Return(p, "Err", r.err, None)
           /\ UNCHANGED hosts_toml
        \/ /\ r.ok
           /\ SaveHosts(p, r.config, r.host)
  /\ UNCHANGED <<net, keys_toml, now, run>>

\* HostManager::get_host after its load
HostManagerGetHost(p) ==
  /\ proc[p].pc = "get_host"
  /\ proc' = Return(p, "Ok", "none", GetHost(proc[p].config, proc[p].args.alias))
  /\ UNCHANGED <<net, hosts_toml, keys_toml, now, run>>

\* `if let Some(host) = config.get_host_mut(alias)` of update_last_seen
SeenArmAlways(found) == TRUE
SeenArm(found) == found # None

\* HostManager::update_last_seen after its load
HostManagerUpdateLastSeen(p) ==
  /\ proc[p].pc = "update_last_seen"
  /\ LET cfg == proc[p].config
         alias == proc[p].args.alias
         found == GetHost(cfg, alias)
     IN \/ /\ ~SeenArm(found)
           /\ proc' = Return(p, "Ok", "none", None)
           /\ UNCHANGED hosts_toml
        \/ /\ SeenArm(found)
           /\ SaveHosts(p, IF found # None
                             THEN [cfg EXCEPT !.hosts[alias] = HostUpdateLastSeen(@)]
                             ELSE cfg, None)
  /\ UNCHANGED <<net, keys_toml, now, run>>

\* HostManager::rename_host after its load
HostManagerRenameHost(p) ==
  /\ proc[p].pc = "rename_host"
  /\ LET r == UpdateHostAlias(proc[p].config, proc[p].args.alias, proc[p].args.new_alias)
     IN \/ /\ ~r.ok
           /\ proc' = Return(p, "Err", r.err, None)
           /\ UNCHANGED hosts_toml
        \/ /\ r.ok
           /\ SaveHosts(p, r.config, None)
  /\ UNCHANGED <<net, keys_toml, now, run>>

\* a second goes by
Tick ==
  /\ now < MaxClock
  /\ now' = now + 1
  /\ UNCHANGED <<net, hosts_toml, keys_toml, proc, run>>

HostStep(p) ==
  \/ \E args \in HostAddArgs : HostCall(p, "add_host", args)
  \/ \E args \in HostAliasArgs : HostCall(p, "remove_host", args)
  \/ \E args \in HostAliasArgs : HostCall(p, "get_host", args)
  \/ \E args \in HostAliasArgs : HostCall(p, "update_last_seen", args)
  \/ \E args \in HostRenameArgs : HostCall(p, "rename_host", args)
  \/ HostManagerAddHost(p)
  \/ HostManagerRemoveHost(p)
  \/ HostManagerGetHost(p)
  \/ HostManagerUpdateLastSeen(p)
  \/ HostManagerRenameHost(p)

(***************************************************************************)
(* Key registry (core/hosts.rs): HostKey, KeyConfig, KeyManager.           *)
(***************************************************************************)
\* the secret keys the user may add or the generator may yield, as
\* SecretKey::to_string writes them
SecretKeys == {"sk1", "sk2"}

\* KeyConfig::default()
DefaultKeyConfig == [keys |-> [k \in {} |-> NoArgs], default_key |-> None]

\* HostKey::new
HostKeyNew(name, secret_key, description) ==
  [name |-> name, secret_key |-> secret_key, created_at |-> now,
   description |-> description]

\* `if self.default_key.is_none() { self.default_key = Some(key.name) }`
DefaultAfterAddLatest(config, key) == Some(key.name)
DefaultAfterAdd(config, key) ==
  IF config.default_key = None THEN Some(key.name) ELSE config.default_key

\* KeyConfig::add_key
AddKey(config, key) ==
  IF key.name \in DOMAIN config.keys
    THEN [ok |-> FALSE, err |-> "key exists", config |-> config]
    ELSE [ok |-> TRUE, err |-> "none",
          config |-> [keys |-> MapInsert(config.keys, key.name, key),
                      default_key |-> DefaultAfterAdd(config, key)]]

\* a removal of the default that names no successor
KeysNextNone(keys) == {None}

\* self.keys.keys().next(): any key of the HashMap, None when it is empty
KeysNext(keys) == IF DOMAIN keys = {} THEN {None} ELSE {Some(k) : k \in DOMAIN keys}

\* `if self.default_key.as_ref() == Some(&key.name)`: the default after the
\* removal of key, where next is what self.keys.keys().next() yields
DefaultAfterRemoveStale(config, key, next) == config.default_key
DefaultAfterRemove(config, key, next) ==
  IF config.default_key = Some(key.name) THEN next ELSE config.default_key

\* KeyConfig::remove_key
RemoveKey(config, name, next) ==
  IF name \in DOMAIN config.keys
    THEN [ok |-> TRUE, err |-> "none", key |-> Some(config.keys[name]),
          config |-> [keys |-> MapRemove(config.keys, name),
                      default_key |-> DefaultAfterRemove(config, config.keys[name], next)]]
    ELSE [ok |-> FALSE, err |-> "not found", key |-> None, config |-> config]

\* KeyConfig::set_default_key
SetDefaultKeyUnchecked(config, name) ==
  [ok |-> TRUE, err |-> "none", config |-> [config EXCEPT !.default_key = Some(name)]]
SetDefaultKey(config, name) ==
  IF name \notin DOMAIN config.keys
    THEN [ok |-> FALSE, err |-> "not found", config |-> config]
    ELSE [ok |-> TRUE, err |-> "none", config |-> [config EXCEPT !.default_key = Some(name)]]

\* self.save(&config) of a key call
SaveKeys(p, config, v) ==
  \/ /\ keys_toml' = Save(config)
     /\ proc' = ReturnSaved(p, "Ok", "none", v)
  \/ /\ keys_toml' = keys_toml
     /\ proc' = ReturnSaved(p, "Err", "io", None)

\* the arguments of the key calls
KeyAddArgs ==
  { [name |-> k, secret_key |-> sk, description |-> None] :
      k \in KeyNames, sk \in SecretKeys }
KeyNameArgs ==
  { [name |-> k, secret_key |-> "", description |-> None] : k \in KeyNames }

\* a KeyManager call is entered and loads keys.toml
KeyCall(p, op, args) ==
  /\ ManagerLoad(p, keys_toml, DefaultKeyConfig, op, args)
  /\ UNCHANGED <<net, hosts_toml, keys_toml, now, run>>

\* KeyManager::add_key after its load
KeyManagerAddKey(p) ==
  /\ proc[p].pc = "add_key"
  /\ LET a == proc[p].args
         r == AddKey(proc[p].config, HostKeyNew(a.name, a.secret_key, a.description))
     IN \/ /\ ~r.ok
           /\ proc' = Return(p, "Err", r.err, None)
           /\ UNCHANGED keys_toml
        \/ /\ r.ok
           /\ SaveKeys(p, r.config, None)
  /\ UNCHANGED <<net, hosts_toml, now, run>>

\* KeyManager::remove_key after its load
KeyManagerRemoveKey(p) ==
  /\ proc[p].pc = "remove_key"
  /\ \E next \in KeysNext(MapRemove(proc[p].config.keys, proc[p].args.name)) :
       LET r == RemoveKey(proc[p].config, proc[p].args.name, next)
       IN \/ /\ ~r.ok
             /\ proc' = Return(p, "Err", r.err, None)
             /\ UNCHANGED keys_toml
          \/ /\ r.ok
             /\ SaveKeys(p, r.config, r.key)
  /\ UNCHANGED <<net, hosts_toml, now, run>>

\* KeyManager::set_default_key after its load
KeyManagerSetDefaultKey(p) ==
  /\ proc[p].pc = "set_default_key"
  /\ LET r == SetDefaultKey(proc[p].config, proc[p].args.name)
     IN \/ /\ ~r.ok
           /\ proc' = Return(p, "Err", r.err, None)
           /\ UNCHANGED keys_toml
        \/ /\ r.ok
           /\ SaveKeys(p, r.config, None)
  /\ UNCHANGED <<net, hosts_toml, now, run>>

KeyStep(p) ==
  \/ \E args \in KeyAddArgs : KeyCall(p, "add_key", args)
  \/ \E args \in KeyNameArgs : KeyCall(p, "remove_key", args)
  \/ \E args \in KeyNameArgs : KeyCall(p, "set_default_key", args)
  \/ KeyManagerAddKey(p)
  \/ KeyManagerRemoveKey(p)
  \/ KeyManagerSetDefaultKey(p)

(***************************************************************************)
(* run (core/mod.rs): the Catch command.                                   *)
(***************************************************************************)
\* NodeId::from_str(&host)
NodeIdFromStr(str) == PublicKeyFromStr(str)

\* the catches the user may type: host (an alias, a node id or neither),
\* query and output path
RunCatchInputs ==
  { [host |-> "a", query |-> QueryAbc, out |-> None],
    [host |-> "pk2", query |-> QueryZzz, out |-> None] }

HostArg(alias) ==
  [alias |-> alias, public_key |-> "", description |-> None, new_alias |-> ""]

RunReturn(r, e) == [run EXCEPT !.pc = "done", !.ret = r, !.err = e]

\* the Catch arm is entered: hosts.get_host(&host) loads hosts.toml
RunCatchGetHost(inp) ==
  /\ run.pc = "idle"
  /\ client.pc = "idle"
  /\ ManagerLoad(Cli, hosts_toml, DefaultHostConfig, "get_host", HostArg(inp.host))
  /\ run' = IF proc'[Cli].ret = "Err"
              THEN [RunReturn("Err", "parse") EXCEPT !.host = inp.host]
              ELSE [run EXCEPT !.pc = "get_host", !.host = inp.host,
                               !.query = inp.query, !.out = inp.out]
  /\ UNCHANGED <<net, hosts_toml, keys_toml, now>>

\* get_host has returned: for Some(host), hosts.update_last_seen(&host.alias)
\* is called and loads hosts.toml; otherwise the argument is parsed as a node
\* id, and run returns "Invalid host" when it is none
RunCatchResolve ==
  /\ run.pc = "get_host"
  /\ proc[Cli].pc = "idle"
  /\ LET found == proc[Cli].value
         parsed == NodeIdFromStr(run.host)
     IN \/ /\ found # None
           /\ ManagerLoad(Cli, hosts_toml, DefaultHostConfig, "update_last_seen",
                          HostArg(found[1].alias))
           /\ run' = IF proc'[Cli].ret = "Err"
                       THEN RunReturn("Err", "parse")
                       ELSE [run EXCEPT !.pc = "update_last_seen",
                                        !.node = PublicKeyFromStr(found[1].public_key)]
        \/ /\ found = None
           /\ run' = IF parsed # None
                       THEN [run EXCEPT !.pc = "receive", !.node = parsed]
                       ELSE RunReturn("Err", "invalid host")
           /\ UNCHANGED proc
  /\ UNCHANGED <<net, hosts_toml, keys_toml, now>>

\* update_last_seen has returned: `?` returns its error, otherwise
\* host.public_key().into() is the node to catch from
RunCatchSeen ==
  /\ run.pc = "update_last_seen"
  /\ proc[Cli].pc = "idle"
  /\ run' = IF proc[Cli].ret = "Err" THEN RunReturn("Err", proc[Cli].err)
            ELSE [run EXCEPT !.pc = "receive"]
  /\ UNCHANGED <<net, hosts_toml, keys_toml, now, proc>>

\* proto.receive(node_id, query, output) is called
RunCatchReceive ==
  /\ run.pc = "receive"
  /\ client.pc = "idle"
  /\ ReceiveCall(run.node[1], run.query, run.out)
  /\ run' = [run EXCEPT !.pc = "receiving"]
  /\ UNCHANGED <<tickets, dropper, handler, c2s, s2c, peer,
                 hosts_toml, keys_toml, now, proc>>

\* receive has returned: `?` returns its error, otherwise run prints "File
\* received successfully" and returns Ok
RunCatchDone ==
  /\ run.pc = "receiving"
  /\ client.pc = "done"
  /\ run' = IF client.ret = "Ok" THEN RunReturn("Ok", "none")
            ELSE RunReturn(client.ret, client.err.kind)
  /\ UNCHANGED <<net, hosts_toml, keys_toml, now, proc>>

RunCatch ==
  \/ \E inp \in RunCatchInputs : RunCatchGetHost(inp)
  \/ HostManagerGetHost(Cli)
  \/ RunCatchResolve
  \/ HostManagerUpdateLastSeen(Cli)
  \/ RunCatchSeen
  \/ RunCatchReceive
  \/ RunCatchDone

(***************************************************************************)
(* run (core/mod.rs): the secret key the endpoint is bound with.           *)
(***************************************************************************)
\* KeyConfig::get_key
GetKey(config, name) ==
  IF name \in DOMAIN config.keys THEN Some(config.keys[name]) ELSE None

\* KeyConfig::get_default_key
GetDefaultKey(config) ==
  IF config.default_key = None THEN None ELSE GetKey(config, config.default_key[1])

KeyArg(name) == [name |-> name, secret_key |-> "", description |-> None]

\* KeyManager::get_key after its load
KeyManagerGetKey(p) ==
  /\ proc[p].pc = "get_key"
  /\ proc' = Return(p, "Ok", "none", GetKey(proc[p].config, proc[p].args.name))
  /\ UNCHANGED <<net, hosts_toml, keys_toml, now, run>>

\* KeyManager::get_default_key after its load
KeyManagerGetDefaultKey(p) ==
  /\ proc[p].pc = "get_default_key"
  /\ proc' = Return(p, "Ok", "none", GetDefaultKey(proc[p].config))
  /\ UNCHANGED <<net, hosts_toml, keys_toml, now, run>>

\* --key as the user may give it
KeyOpts == {None} \cup {Some(k) : k \in KeyNames}

\* `if let Some(key) = opts.key`: the call that looks the secret key up
FirstLookupDefault(key) == "get_default_key"
FirstLookup(key) == IF key # None THEN "get_key" ELSE "get_default_key"

\* run is entered: keys.get_key(&key) for an explicit --key, otherwise
\* keys.get_default_key(); either loads keys.toml
RunStart(key) ==
  /\ run.pc = "idle"
  /\ ManagerLoad(Cli, keys_toml, DefaultKeyConfig, FirstLookup(key),
                 KeyArg(IF key # None THEN key[1] ELSE ""))
  /\ run' = IF proc'[Cli].ret = "Err"
              THEN [RunReturn("Err", "parse") EXCEPT !.key = key]
              ELSE [run EXCEPT !.pc = FirstLookup(key), !.key = key]
  /\ UNCHANGED <<net, hosts_toml, keys_toml, now>>

\* get_key has returned: the key's secret, or Err("Key '{}' not found")
RunKeyNamed ==
  /\ run.pc = "get_key"
  /\ proc[Cli].pc = "idle"
  /\ run' = IF proc[Cli].value # None
              THEN [run EXCEPT !.pc = "resolved", !.sk = Some(proc[Cli].value[1].secret_key)]
              ELSE RunReturn("Err", "key not found")
  /\ UNCHANGED <<net, hosts_toml, keys_toml, now, proc>>

\* get_default_key has returned: the default key's secret; for None a secret
\* key is generated and keys.add_key("default", sk, None) loads keys.toml
RunKeyDefault ==
  /\ run.pc = "get_default_key"
  /\ proc[Cli].pc = "idle"
  /\ \/ /\ proc[Cli].value # None
        /\ run' = [run EXCEPT !.pc = "resolved",
                              !.sk = Some(proc[Cli].value[1].secret_key)]
        /\ UNCHANGED proc
     \/ /\ proc[Cli].value = None
        /\ \E sk \in SecretKeys :
             /\ ManagerLoad(Cli, keys_toml, DefaultKeyConfig, "add_key",
                            [name |-> "default", secret_key |-> sk, description |-> None])
             /\ run' = IF proc'[Cli].ret = "Err"
                         THEN RunReturn("Err", "parse")
                         ELSE [run EXCEPT !.pc = "generated", !.sk = Some(sk)]
  /\ UNCHANGED <<net, hosts_toml, keys_toml, now>>

\* add_key of the generated key has returned: `?` returns its error
RunKeyGenerated ==
  /\ run.pc = "generated"
  /\ proc[Cli].pc = "idle"
  /\ run' = IF proc[Cli].ret = "Err"
              THEN [RunReturn("Err", proc[Cli].err) EXCEPT !.sk = None]
              ELSE [run EXCEPT !.pc = "resolved", !.generated = TRUE]
  /\ UNCHANGED <<net, hosts_toml, keys_toml, now, proc>>

RunIdentity ==
  \/ \E key \in KeyOpts : RunStart(key)
  \/ KeyManagerGetKey(Cli)
  \/ RunKeyNamed
  \/ KeyManagerGetDefaultKey(Cli)
  \/ RunKeyDefault
  \/ RunKeyGenerated

(***************************************************************************)
(* run (core/mod.rs): the endpoint is bound with the secret key, then the  *)
(* command is matched; handle_key_command and handle_host_command          *)
(* (core/commands.rs).                                                     *)
(***************************************************************************)
\* where run is while a subcommand handler works
CommandPcs == {"key_add", "key_add_default", "key_set_default", "host_show"}

\* `match opts.command` comes after `let sk = ...` and the bind of the endpoint
DispatchReadyEarly(pc) == pc \in {"idle", "resolved"}
DispatchReady(pc) == pc = "resolved"

\* Endpoint::builder()...bind().await? yields Err: run returns it, no command
\* is dispatched
RunBindErr ==
  /\ run.pc = "resolved"
  /\ run' = RunReturn("Err", "bind")
  /\ UNCHANGED <<net, hosts_toml, keys_toml, now, proc>>

\* KeyCommand::Generate and KeyCommand::Add (a secret key that parses): the
\* handler calls key_manager.add_key(name, sk, description), directly or
\* through generate_key, which loads keys.toml
RunDispatchKeyAdd(args, default) ==
  /\ DispatchReady(run.pc)
  /\ ManagerLoad(Cli, keys_toml, DefaultKeyConfig, "add_key", args)
  /\ run' = IF proc'[Cli].ret = "Err"
              THEN RunReturn("Err", "parse")
              ELSE [run EXCEPT !.pc = IF default THEN "key_add_default" ELSE "key_add"]
  /\ UNCHANGED <<net, hosts_toml, keys_toml, now>>

\* add_key has returned: `?` returns its error; `if default` calls
\* key_manager.set_default_key(&name); otherwise the handler returns Ok(())
RunKeyAdded ==
  /\ run.pc \in {"key_add", "key_add_default"}
  /\ proc[Cli].pc = "idle"
  /\ IF proc[Cli].ret = "Err"
       THEN run' = RunReturn("Err", proc[Cli].err) /\ UNCHANGED proc
     ELSE IF run.pc = "key_add"
       THEN run' = RunReturn("Ok", "none") /\ UNCHANGED proc
     ELSE /\ ManagerLoad(Cli, keys_toml, DefaultKeyConfig, "set_default_key",
                         KeyArg(proc[Cli].args.name))
          /\ run' = IF proc'[Cli].ret = "Err"
                      THEN RunReturn("Err", "parse")
                      ELSE [run EXCEPT !.pc = "key_set_default"]
  /\ UNCHANGED <<net, hosts_toml, keys_toml, now>>

\* set_default_key has returned: its error, or Ok(()) of the handler
RunKeyDefaultSet ==
  /\ run.pc = "key_set_default"
  /\ proc[Cli].pc = "idle"
  /\ run' = IF proc[Cli].ret = "Err" THEN RunReturn("Err", proc[Cli].err)
            ELSE RunReturn("Ok", "none")
  /\ UNCHANGED <<net, hosts_toml, keys_toml, now, proc>>

\* HostCommand::Show: host_manager.get_host(&alias) loads hosts.toml
RunDispatchHostShow(alias) ==
  /\ DispatchReady(run.pc)
  /\ ManagerLoad(Cli, hosts_toml, DefaultHostConfig, "get_host", HostArg(alias))
  /\ run' = IF proc'[Cli].ret = "Err"
              THEN RunReturn("Err", "parse")
              ELSE [run EXCEPT !.pc = "host_show"]
  /\ UNCHANGED <<net, hosts_toml, keys_toml, now>>

\* get_host has returned: the host is printed, or the warning for None;
\* either way the handler returns Ok(())
RunHostShown ==
  /\ run.pc = "host_show"
  /\ proc[Cli].pc = "idle"
  /\ run' = IF proc[Cli].ret = "Err" THEN RunReturn("Err", proc[Cli].err)
            ELSE RunReturn("Ok", "none")
  /\ UNCHANGED <<net, hosts_toml, keys_toml, now, proc>>

RunCommand ==
  \/ RunBindErr
  \/ \E args \in KeyAddArgs, default \in BOOLEAN : RunDispatchKeyAdd(args, default)
  \/ RunKeyAdded
  \/ KeyManagerSetDefaultKey(Cli)
  \/ RunKeyDefaultSet
  \/ \E alias \in Aliases : RunDispatchHostShow(alias)
  \/ HostManagerGetHost(Cli)
  \/ RunHostShown

(***************************************************************************)
(* Specifications.                                                         *)
(***************************************************************************)
\* one catch against the serving process (or against a foreign peer)
Next ==
  \/ Send
  \/ Receive
  \/ HandlerStep(ClientConn)
  \/ \E r \in RawResponses : PeerRespond(r)

Spec == Init /\ [][Next]_vars

\* the serving process with its concurrent handlers, fed by remote peers
NextServer ==
  \/ Send
  \/ \E h \in Handlers : HandlerStep(h)
  \/ \E h \in Handlers, r \in RawRequests : PeerRequest(h, r)

SpecServer == Init /\ [][NextServer]_vars

\* one process after the other works on the host registry
NextHosts ==
  \/ HostStep(Cli)
  \/ Tick

SpecHosts == Init /\ [][NextHosts]_vars

\* the host registry of one process, whose file may be spoilt from outside
NextConfig ==
  \/ HostStep(Cli)
  \/ ForeignWrite
  \/ Tick

SpecConfig == Init /\ [][NextConfig]_vars

\* two processes of the same user register hosts at the same time: nothing
\* orders the load of one against the save of the other
NextRace ==
  \/ \E p \in Procs, args \in HostAddArgs : HostCall(p, "add_host", args)
  \/ \E p \in Procs : HostManagerAddHost(p)

SpecRace == Init /\ [][NextRace]_vars

\* the steps of receive on a connection to the handler whose awaits all
\* yield Ok
ReceiveDelivered ==
  \/ ConnectOk("handler")
  \/ OpenBi
  \/ WriteLen
  \/ WriteQuery
  \/ AwaitStopped
  \/ ReadCode
  \/ ReadSize
  \/ ReadBody
  \/ DownloadDone
  \/ ExportDone

\* the steps of accept whose awaits all yield Ok
AcceptDelivered(h) ==
  \/ Accept(h)
  \/ AcceptBi(h)
  \/ ReadQuerySize(h)
  \/ ReadQuery(h)
  \/ WriteErrCode(h)
  \/ WriteErrLen(h)
  \/ WriteOkCode(h)
  \/ WriteOkLen(h)
  \/ WriteOkBody(h)
  \/ WriteNotFoundCode(h)
  \/ WriteNotFoundLen(h)
  \/ HandlerStopped(h)

\* one exchange between receive and accept over a stream that delivers every
\* byte and fails no operation, while files are dropped.  The runtime polls
\* every task that can go on, so neither the client's future nor the handler's
\* task stays ready for ever without running.
NextExchange ==
  \/ Send
  \/ \E i \in CatchInputs : ReceiveStart(i.node, i.query, i.out)
  \/ ReceiveDelivered
  \/ AcceptDelivered(ClientConn)

SpecExchange ==
  /\ Init
  /\ [][NextExchange]_vars
  /\ WF_vars(ReceiveDelivered)
  /\ WF_vars(AcceptDelivered(ClientConn))

\* files are dropped by the serving process, then a host is registered by the
\* catching one, then it runs one catch
NextCatch ==
  \/ /\ run.pc = "idle"
     /\ proc[Cli].n = 0
     /\ \E args \in HostAddArgs : args.alias = "a" /\ HostCall(Cli, "add_host", args)
  \/ HostManagerAddHost(Cli)
  \/ RunCatch
  \/ ReceiveSteps
  \/ HandlerStep(ClientConn)
  \/ \E r \in RawResponses : PeerRespond(r)
  \/ /\ run.pc = "idle"
     /\ proc[Cli].pc = "idle"
     /\ proc[Cli].n = 0
     /\ Send

SpecCatch == Init /\ [][NextCatch]_vars

\* one process after the other works on the key registry
NextKeys ==
  \/ KeyStep(Cli)
  \/ Tick

SpecKeys == Init /\ [][NextKeys]_vars

\* key commands of earlier invocations, then one invocation of run resolves
\* its secret key
NextStartup ==
  \/ run.pc = "idle" /\ KeyStep(Cli)
  \/ KeyManagerAddKey(Cli)
  \/ RunIdentity
  \/ Tick

SpecStartup == Init /\ [][NextStartup]_vars

\* key commands of earlier invocations, then one invocation of run from its
\* first line to the return of its subcommand handler
NextCommand ==
  \/ run.pc = "idle" /\ KeyStep(Cli)
  \/ KeyManagerAddKey(Cli)
  \/ RunIdentity
  \/ RunCommand

SpecCommand == Init /\ [][NextCommand]_vars


(***************************************************************************)
(* Properties of the exchange.                                             *)
(***************************************************************************)
IsPrefix(a, b) == Len(a) <= Len(b) /\ a = SubSeq(b, 1, Len(a))

\* the three responses of accept, as they appear on the wire
OkResponse(t) ==
  <<CodeOk>> \o EncodeU32(Len(SerializeTicket(t))) \o SerializeTicket(t)
NotFoundResponse == <<CodeNotFound, 0, 0, 0, 0>>
ErrorResponse == <<CodeError, 0, 0, 0, 0>>

\* handler h has just looked its query up (the step that leaves read_query
\* with a decoded query)
LookedUp(h) == handler[h].pc = "read_query" /\ handler'[h].query # None

\* handler h has read the length prefix and every query byte it announces
RequestRead(h) ==
  /\ handler[h].rd >= 4
  /\ handler[h].rd = 4 + handler[h].query_size

\* C1: if the registry maps the query q of a request to a ticket with hash H
\* when the handler looks q up, the handler takes the Ok arm holding that
\* ticket and the response it finishes is the Ok code, the length and the
\* serialized ticket; the catch that reads this response decodes a ticket
\* with hash H (it neither fails to decode nor panics) and calls download
\* with the digest H names and the node it connected to.
C1_OkTicketThenDownload ==
  /\ [][\A h \in Handlers :
          (LookedUp(h) /\ handler'[h].query[1] \in DOMAIN tickets)
            => /\ handler'[h].pc = "w_ok_code"
               /\ handler'[h].ticket = Some(tickets[handler'[h].query[1]])]_vars
  /\ [](\A h \in Handlers :
          (handler[h].ticket # None /\ s2c[h].fin)
            => s2c[h].data = OkResponse(handler[h].ticket[1]))
  /\ [](client.server = "handler" =>
          /\ client.err.kind # "deserialize"
          /\ client.ret # "Panic"
          /\ (client.code = "Ok" /\ client.pc \notin {"read_size", "read_body"}
                /\ client.err.kind # "io")
               => client.download # None
          /\ client.download # None =>
               /\ handler[ClientConn].ticket # None
               /\ client.ticket[1].hash = handler[ClientConn].ticket[1].hash
               /\ HashToString(client.download[1].hash) = handler[ClientConn].ticket[1].hash
               /\ client.download[1].from = client.node)

\* the catch has decoded the handler's ticket and is downloading
C1_Witness ==
  /\ client.server = "handler"
  /\ client.pc = "download"
  /\ client.query = QueryAbc
  /\ client.ticket[1].hash = HashToString(H2)

\* C2: when the catch sent a non-empty query and the handler's lookup finds
\* no entry for it, the handler takes the NotFound arm, what it writes is the
\* NotFound code and a zero length and nothing else, and the catch calls
\* neither download nor export.
C2_AbsentQueryNotFound ==
  /\ [][(LookedUp(ClientConn) /\ handler'[ClientConn].query[1] \notin DOMAIN tickets)
          => /\ handler'[ClientConn].pc = "w_nf_code"
             /\ handler'[ClientConn].ticket = None]_vars
  /\ [](( /\ client.server = "handler"
          /\ Len(client.query) > 0
          /\ handler[ClientConn].lookups > 0
          /\ handler[ClientConn].ticket = None )
         => /\ handler[ClientConn].query = Some(client.query)
            /\ IsPrefix(s2c[ClientConn].data, NotFoundResponse)
            /\ s2c[ClientConn].fin => s2c[ClientConn].data = NotFoundResponse
            /\ client.code \in {"none", "NotFound"}
            /\ client.download = None
            /\ client.export = None)

\* the catch of an absent query is over and the handler has answered NotFound
C2_Witness ==
  /\ client.server = "handler"
  /\ client.query = QueryZzz
  /\ client.pc = "done"
  /\ client.code = "NotFound"
  /\ handler[ClientConn].pc = "closed"
  /\ handler[ClientConn].ret = "Ok"
  /\ DOMAIN tickets # {}

\* C3: a handler that has read a zero length prefix never looks the registry
\* up, writes only the Error code and a zero length, and returns once both
\* are written and the stream is finished, whatever the registry holds.
C3_EmptyQueryError ==
  \A h \in Handlers :
    (handler[h].rd >= 4 /\ handler[h].query_size = 0)
      => /\ handler[h].lookups = 0
         /\ handler[h].ticket = None
         /\ handler[h].query = None
         /\ handler[h].pc \in {"w_err_code", "w_err_len", "closed"}
         /\ IsPrefix(s2c[h].data, ErrorResponse)
         /\ (handler[h].pc = "closed" /\ handler[h].ret = "Ok")
              => (s2c[h].data = ErrorResponse /\ s2c[h].fin)

\* an empty query has been answered Error while the registry holds a ticket
C3_Witness ==
  \E h \in Handlers :
    /\ handler[h].pc = "closed"
    /\ handler[h].ret = "Ok"
    /\ handler[h].rd = 4
    /\ handler[h].query_size = 0
    /\ s2c[h].data = ErrorResponse
    /\ DOMAIN tickets # {}

\* the request stream of handler h holds a length prefix and the bytes it announces
RequestArrived(h) ==
  /\ Len(c2s[h].data) >= 4
  /\ Len(c2s[h].data) >= 4 + DecodeU32(SubSeq(c2s[h].data, 1, 4))

\* a step of handler h in which no await fails
HandlerProgress(h) ==
  \/ Accept(h)
  \/ AcceptBi(h)
  \/ ReadQuerySize(h)
  \/ ReadQuery(h)
  \/ WriteErrCode(h)
  \/ WriteErrLen(h)
  \/ WriteOkCode(h)
  \/ WriteOkLen(h)
  \/ WriteOkBody(h)
  \/ WriteNotFoundCode(h)
  \/ WriteNotFoundLen(h)
  \/ HandlerStopped(h)

C5_UnknownCodeFails ==
  (client.pc = "done" /\ client.code = "None")
    => /\ client.ret = "Err"
       /\ client.download = None
       /\ client.export = None
       /\ client.sent = 1

\* C6: once connect_with_retry has returned a connection, k failed attempts
\* (0 <= k <= 3) came before the successful one, exactly k sleeps of 2 seconds
\* were made, no error is recorded at that moment, and the query is then
\* written once.
C6_RetryThenConnected ==
  /\ client.server # "none" =>
       /\ client.connects \in 1..(Retries + 1)
       /\ client.attempts = client.connects - 1
       /\ client.slept = RetryDelaySecs * (client.connects - 1)
       /\ client.err.kind # "connect"
       /\ client.pc = "open_bi" => (client.ret = "none" /\ client.err = NoErr)
       /\ client.pc \in {"stopped", "read_code", "read_size", "read_body",
                         "download", "export"} => client.sent = 1

\* two failures, then a connection: 4 seconds slept and the query is sent
C6_Witness ==
  /\ client.server = "handler"
  /\ client.connects = 3
  /\ client.slept = 4
  /\ client.pc = "stopped"
  /\ c2s[ClientConn].data = EncodeU32(Len(client.query)) \o client.query

\* C7: connect_with_retry makes at most 1 + 3 attempts; every attempt after
\* the first follows exactly one sleep of 2 seconds; when all fail, receive
\* returns right after the 4th failure (3 sleeps, none after it) with the
\* error of that 4th attempt.
C7_RetriesExhausted ==
  /\ client.connects <= Retries + 1
  /\ client.pc = "connecting" => client.slept = RetryDelaySecs * client.connects
  /\ client.pc = "sleeping" => client.slept = RetryDelaySecs * (client.connects - 1)
  /\ client.err.kind = "connect" =>
       /\ client.pc = "done"
       /\ client.ret = "Err"
       /\ client.server = "none"
       /\ client.connects = Retries + 1
       /\ client.slept = RetryDelaySecs * Retries
       /\ client.err.attempt = client.connects
  /\ (client.pc = "done" /\ client.server = "none") => client.err.kind = "connect"

\* every attempt has failed
C7_Witness ==
  /\ client.pc = "done"
  /\ client.err.kind = "connect"
  /\ client.err.attempt = 4

\* C8: after connect_with_retry has returned a connection, no step of the
\* catch connects or sleeps again or writes the query a second time; a step
\* in which an await on the stream, the decoding or the blob store fails
\* ends receive at once with that error; a NotFound or Error code ends it
\* without download.
C8_NoRetryAfterConnect ==
  /\ [][ /\ client.server # "none" =>
              /\ client'.connects = client.connects
              /\ client'.slept = client.slept
              /\ client'.pc \notin {"connecting", "sleeping"}
              /\ client'.sent <= 1
         /\ (client.pc \in ClientStreamAwaits /\ client'.err # client.err) =>
              /\ client'.pc = "done"
              /\ client'.ret = "Err"
              /\ client'.err.kind \in {"io", "deserialize"}
              /\ client'.err.kind = "io" => client'.err.at = client.pc
              /\ client'.sent = client.sent
              /\ client'.download = client.download
              /\ client'.export = client.export
         /\ client.pc = "done" => client' = client ]_vars
  /\ [](client.code \in {"NotFound", "Error"} =>
          /\ client.pc = "done"
          /\ client.ret = "Ok"
          /\ client.sent = 1
          /\ client.download = None)

\* a read on the stream failed after the second connection attempt succeeded
C8_Witness ==
  /\ client.pc = "done"
  /\ client.connects = 2
  /\ client.err.kind = "io"
  /\ client.err.at = "read_size"

\* C9: when send returns the ticket of a file with digest H, the ticket's
\* query is the first 6 characters of the hex form of H, its hash is that hex
\* form, and the registry then maps the query to a ticket with that hash.
C9_DropThenLookup ==
  [][(dropper.pc = "insert" /\ dropper'.pc = "idle") =>
       LET t == dropper'.ticket[1]
           str == HashToString(dropper.hash)
       IN /\ dropper'.ret = "Ok"
          /\ Len(str) = 2 * HashBytes
          /\ t.hash = str
          /\ t.query = SubSeq(str, 1, 6)
          /\ dropper.hash = H3 => t.query = <<100, 101, 102, 52, 53, 54>>
          /\ t.query \in DOMAIN tickets'
          /\ tickets'[t.query].hash = str
          /\ tickets'[t.query] = t]_vars

\* send has returned the ticket of H3 and the registry serves it
C9_Witness ==
  /\ dropper.pc = "idle"
  /\ dropper.ret = "Ok"
  /\ dropper.ticket # None
  /\ dropper.ticket[1].hash = HashToString(H3)
  /\ <<100, 101, 102, 52, 53, 54>> \in DOMAIN tickets

\* C10: a query that is a key of the registry stays a key; only the insert of
\* send changes the registry, no step of a handler does; and a handler that
\* looks up a key of the registry takes the Ok arm and never writes NotFound,
\* whatever the other handler and send are doing.
C10_InsertedStaysServable ==
  /\ [][ /\ \A q \in DOMAIN tickets : q \in DOMAIN tickets'
         /\ handler' # handler => tickets' = tickets
         /\ tickets' # tickets => (dropper.pc = "insert" /\ dropper'.pc = "idle")
         /\ \A h \in Handlers :
              (LookedUp(h) /\ handler'[h].query[1] \in DOMAIN tickets)
                => handler'[h].pc = "w_ok_code" ]_vars
  /\ [](\A h \in Handlers :
          handler[h].ticket # None =>
            /\ handler[h].query[1] \in DOMAIN tickets
            /\ s2c[h].data = <<>> \/ s2c[h].data[1] = CodeOk)

\* one handler has served a query Ok and returned; the entry was replaced by
\* a later drop; the other handler serves the same query Ok
C10_Witness ==
  /\ handler[1].pc = "closed"
  /\ handler[1].ret = "Ok"
  /\ handler[1].ticket # None
  /\ handler[2].pc = "w_ok_body"
  /\ handler[2].query = handler[1].query
  /\ handler[2].ticket # handler[1].ticket

\* C11: when send inserts the ticket of a hash H2 while the registry holds,
\* under the same 6-character query q, the ticket of another hash H1, the
\* insertion goes through and send returns Ok; the registry then maps q to
\* the ticket of H2, no query maps to the ticket of H1 any more, and no
\* other entry is touched.  A handler that looks q up afterwards gets the
\* ticket the registry holds then.
C11_CollidingInsertReplaces ==
  [][ /\ ( /\ dropper.pc = "insert" /\ dropper'.pc = "idle"
           /\ dropper.ticket[1].query \in DOMAIN tickets
           /\ tickets[dropper.ticket[1].query].hash # dropper.ticket[1].hash )
        => LET t2 == dropper.ticket[1]
               q == t2.query
               t1 == tickets[q]
           IN /\ dropper'.ret = "Ok"
              /\ DOMAIN tickets' = DOMAIN tickets
              /\ tickets'[q] = t2
              /\ tickets'[q].hash # t1.hash
              /\ \A k \in DOMAIN tickets' :
                   /\ tickets'[k] # t1
                   /\ tickets'[k].hash # t1.hash
                   /\ k # q => tickets'[k] = tickets[k]
      /\ \A h \in Handlers :
           (LookedUp(h) /\ handler'[h].query[1] \in DOMAIN tickets)
             => handler'[h].ticket = Some(tickets[handler'[h].query[1]]) ]_vars

\* H1 was served under the query, H2 was then dropped under the same query,
\* and a second lookup of the query was served the ticket of H2
C11_Witness ==
  /\ handler[1].pc = "closed"
  /\ handler[1].query = Some(QueryAbc)
  /\ handler[1].ticket # None
  /\ handler[1].ticket[1].hash = HashToString(H1)
  /\ dropper.ret = "Ok"
  /\ dropper.ticket # None
  /\ dropper.ticket[1].hash = HashToString(H2)
  /\ tickets[QueryAbc].hash = HashToString(H2)
  /\ handler[2].query = Some(QueryAbc)
  /\ handler[2].ticket # None
  /\ handler[2].ticket[1].hash = HashToString(H2)

\* C12: a step of a handler that puts a byte on the response stream, or
\* finishes it, is taken only after the handler has read the 4-byte length
\* prefix and as many query bytes as the prefix announces, all of them bytes
\* the peer has put on the request stream.
C12_RequestReadBeforeResponse ==
  /\ [][\A h \in Handlers :
          s2c'[h] # s2c[h] =>
            /\ RequestRead(h)
            /\ handler[h].rd <= Len(c2s[h].data)
            /\ handler[h].query_size = DecodeU32(SubSeq(c2s[h].data, 1, 4))]_vars
  /\ [](\A h \in Handlers :
          (s2c[h].data # <<>> \/ s2c[h].fin) =>
            /\ RequestRead(h)
            /\ handler[h].rd <= Len(c2s[h].data))

\* a handler has read a 6-byte query and has written the first response byte
C12_Witness ==
  \E h \in Handlers :
    /\ handler[h].query_size = 6
    /\ handler[h].rd = 10
    /\ Len(s2c[h].data) = 1
    /\ handler[h].pc \in {"w_ok_len", "w_nf_len"}

\* a complete response: one code byte, the 4-byte length, that many body bytes
WellFormedResponse(d) ==
  /\ Len(d) >= 5
  /\ d[1] \in {CodeOk, CodeNotFound, CodeError}
  /\ Len(d) = 5 + DecodeU32(SubSeq(d, 2, 5))
  /\ d[1] \in {CodeNotFound, CodeError} => DecodeU32(SubSeq(d, 2, 5)) = 0

\* C13: what a handler has written is at every moment the beginning of one
\* response made of one code byte, a 4-byte length and as many body bytes,
\* with length 0 when the code is NotFound or Error; the stream is finished
\* exactly when that response is complete; a handler that returns Ok has
\* written such a response and finished the stream; nothing is written after
\* the stream is finished, so a connection gets at most one response.
C13_OneWellFormedResponse ==
  /\ [](\A h \in Handlers :
          /\ \E r \in {OkResponse(tickets[q]) : q \in DOMAIN tickets}
                        \cup {NotFoundResponse, ErrorResponse}
                        \cup (IF handler[h].ticket # None
                                THEN {OkResponse(handler[h].ticket[1])} ELSE {}) :
               /\ WellFormedResponse(r)
               /\ IsPrefix(s2c[h].data, r)
               /\ s2c[h].fin => s2c[h].data = r
          /\ s2c[h].fin => WellFormedResponse(s2c[h].data)
          /\ (handler[h].pc = "closed" /\ handler[h].ret = "Ok")
               => (s2c[h].fin /\ WellFormedResponse(s2c[h].data)))
  /\ [][\A h \in Handlers :
          /\ s2c[h].fin => s2c'[h] = s2c[h]
          /\ handler[h].pc = "closed" => (s2c'[h] = s2c[h] /\ handler'[h] = handler[h])
          /\ s2c'[h] # s2c[h] => IsPrefix(s2c[h].data, s2c'[h].data)]_vars

\* both handlers have returned, one after an Ok response with a body, the
\* other after a NotFound response
C13_Witness ==
  /\ handler[1].pc = "closed"
  /\ handler[1].ret = "Ok"
  /\ s2c[1].fin
  /\ s2c[1].data[1] = CodeOk
  /\ Len(s2c[1].data) > 5
  /\ handler[2].pc = "closed"
  /\ handler[2].ret = "Ok"
  /\ s2c[2].data = NotFoundResponse

\* the host registry as the file holds it (empty while the file is missing)
Registry == Load(hosts_toml, DefaultHostConfig).config.hosts

\* process p returns from the manager call op in this step
Returns(p, op) == proc[p].pc = op /\ proc'[p].pc = "idle"

\* C14: when add_host is called with an alias that is a key of the registry,
\* or with an identity that the registry binds to another alias, the call
\* returns an error, save is not called and hosts.toml is left as it was: the
\* host first bound to the alias or the identity is still the only one.
C14_AddHostConflict ==
  [][\A p \in Procs :
       LET a == proc[p].args.alias
           k == PublicKeyToString(proc[p].args.public_key)
       IN ( /\ Returns(p, "add_host")
            /\ \/ a \in DOMAIN Registry
               \/ \E b \in DOMAIN Registry : b # a /\ Registry[b].public_key = k )
          => /\ proc'[p].ret = "Err"
             /\ proc'[p].err \in {"alias exists", "public key exists"}
             /\ a \in DOMAIN Registry => proc'[p].err = "alias exists"
             /\ proc'[p].saves = proc[p].saves
             /\ hosts_toml' = hosts_toml]_vars

\* add_host has refused an identity that another alias is bound to
C14_Witness ==
  /\ proc[Cli].op = "add_host"
  /\ proc[Cli].pc = "idle"
  /\ proc[Cli].ret = "Err"
  /\ proc[Cli].err = "public key exists"
  /\ proc[Cli].args.alias \notin DOMAIN Registry
  /\ \E b \in DOMAIN Registry :
       Registry[b].public_key = PublicKeyToString(proc[Cli].args.public_key)

\* C15: whatever host calls were made since the registry was empty, no two
\* entries of hosts.toml have the same public key and every entry is stored
\* under the alias it holds; the same is true of the configuration a call
\* has loaded.
C15_HostsUnique ==
  /\ \A a, b \in DOMAIN Registry :
       a # b => Registry[a].public_key # Registry[b].public_key
  /\ \A a \in DOMAIN Registry : Registry[a].alias = a
  /\ \A p \in Procs :
       proc[p].pc # "idle" =>
         /\ \A a, b \in DOMAIN proc[p].config.hosts :
              a # b => proc[p].config.hosts[a].public_key # proc[p].config.hosts[b].public_key
         /\ \A a \in DOMAIN proc[p].config.hosts : proc[p].config.hosts[a].alias = a

\* two hosts are registered, one of them seen, and a rename has been made
C15_Witness ==
  /\ Cardinality(DOMAIN Registry) = 2
  /\ \E a \in DOMAIN Registry : Registry[a].last_seen # None
  /\ proc[Cli].op = "rename_host"
  /\ proc[Cli].ret = "Ok"
  /\ proc[Cli].args.new_alias \in DOMAIN Registry
  /\ Registry[proc[Cli].args.new_alias].last_seen # None

\* C16: when rename_host(old, new) is called and new is a key of the registry
\* or old is not, the call returns an error, save is not called and
\* hosts.toml is left as it was, so every host keeps all its fields.
C16_RenameConflict ==
  [][\A p \in Procs :
       ( /\ Returns(p, "rename_host")
         /\ \/ proc[p].args.new_alias \in DOMAIN Registry
            \/ proc[p].args.alias \notin DOMAIN Registry )
       => /\ proc'[p].ret = "Err"
          /\ proc'[p].err \in {"alias exists", "not found"}
          /\ proc'[p].saves = proc[p].saves
          /\ hosts_toml' = hosts_toml
          /\ \A a \in DOMAIN Registry : Registry'[a] = Registry[a]]_vars

\* a rename onto the alias of another host has been refused
C16_Witness ==
  /\ proc[Cli].op = "rename_host"
  /\ proc[Cli].pc = "idle"
  /\ proc[Cli].ret = "Err"
  /\ proc[Cli].err = "alias exists"
  /\ proc[Cli].args.alias # proc[Cli].args.new_alias
  /\ {proc[Cli].args.alias, proc[Cli].args.new_alias} \subseteq DOMAIN Registry

\* C18: when update_last_seen is called with an alias that is no key of the
\* registry, the call returns Ok without calling save, and hosts.toml is left
\* as it was; a missing file stays missing.
C18_UpdateLastSeenAbsent ==
  [][\A p \in Procs :
       ( /\ Returns(p, "update_last_seen")
         /\ Load(hosts_toml, DefaultHostConfig).ok
         /\ proc[p].args.alias \notin DOMAIN Registry )
       => /\ proc'[p].ret = "Ok"
          /\ proc'[p].saves = proc[p].saves
          /\ hosts_toml' = hosts_toml]_vars

\* update_last_seen has returned Ok and hosts.toml is still missing
C18_Witness ==
  /\ proc[Cli].op = "update_last_seen"
  /\ proc[Cli].pc = "idle"
  /\ proc[Cli].ret = "Ok"
  /\ proc[Cli].saves = 0
  /\ hosts_toml = MissingFile

\* C17 as claimed: the last_seen of a host in hosts.toml changes only in a
\* step taken when a catch from that host has completed successfully, that
\* is when receive has returned Ok after it obtained a ticket and downloaded
\* the content; in particular it is unchanged by a catch that fails to
\* connect, is answered NotFound or Error, or meets a protocol violation.
C17_LastSeenOnlyAfterCatch ==
  [][\A a \in DOMAIN Registry :
       (a \in DOMAIN Registry' /\ Registry'[a].last_seen # Registry[a].last_seen)
         => /\ run.host = a
            /\ client.pc = "done"
            /\ client.ret = "Ok"
            /\ client.ticket # None
            /\ client.download # None]_vars

\* the key registry as the file holds it (empty while the file is missing)
KeyRegistry == Load(keys_toml, DefaultKeyConfig).config

\* C19: when remove_key succeeds on the key that is the default, the default
\* of keys.toml becomes one of the keys that remain, or none when no key
\* remains; when it succeeds on another key, the default stays what it was;
\* in both cases the key removed is the one named and the others stay.
C19_RemoveKeyDefault ==
  [][\A p \in Procs :
       (Returns(p, "remove_key") /\ proc'[p].ret = "Ok")
       => LET name == proc[p].args.name
              before == KeyRegistry
              after == KeyRegistry'
          IN /\ name \in DOMAIN before.keys
             /\ DOMAIN after.keys = DOMAIN before.keys \ {name}
             /\ \A k \in DOMAIN after.keys : after.keys[k] = before.keys[k]
             /\ IF before.default_key = Some(name)
                  THEN IF DOMAIN after.keys = {}
                         THEN after.default_key = None
                         ELSE /\ after.default_key # None
                              /\ after.default_key[1] \in DOMAIN after.keys
                  ELSE after.default_key = before.default_key]_vars

\* the default key has been removed and, of the two keys that remained, the
\* one added last is the default
C19_Witness ==
  /\ proc[Cli].op = "remove_key"
  /\ proc[Cli].pc = "idle"
  /\ proc[Cli].ret = "Ok"
  /\ proc[Cli].args.name = "default"
  /\ proc[Cli].value # None
  /\ DOMAIN KeyRegistry.keys = {"k1", "k2"}
  /\ KeyRegistry.default_key = Some("k2")
  /\ KeyRegistry.keys["k2"].created_at > KeyRegistry.keys["k1"].created_at

\* C20: when add_key succeeds on a registry without a default, the key added
\* is the default of keys.toml afterwards; when it succeeds on a registry
\* that has a default, the default stays what it was; the key is stored
\* under its name.
C20_AddKeyDefault ==
  [][\A p \in Procs :
       (Returns(p, "add_key") /\ proc'[p].ret = "Ok")
       => LET name == proc[p].args.name
              before == KeyRegistry
              after == KeyRegistry'
          IN /\ name \notin DOMAIN before.keys
             /\ DOMAIN after.keys = DOMAIN before.keys \cup {name}
             /\ after.keys[name].name = name
             /\ after.keys[name].secret_key = proc[p].args.secret_key
             /\ IF before.default_key = None
                  THEN after.default_key = Some(name)
                  ELSE after.default_key = before.default_key]_vars

\* a second key has been added and the first one is still the default
C20_Witness ==
  /\ proc[Cli].op = "add_key"
  /\ proc[Cli].pc = "idle"
  /\ proc[Cli].ret = "Ok"
  /\ proc[Cli].args.name = "default"
  /\ DOMAIN KeyRegistry.keys = {"default", "k1"}
  /\ KeyRegistry.default_key = Some("k1")

\* C21: add_key with a name that is a key of the registry, set_default_key
\* with a name that is none, and remove_key of a name that is none each
\* return an error without calling save, and keys.toml (the keys, their
\* secrets and the default) is left as it was.
C21_KeyConflict ==
  [][\A p \in Procs :
       LET name == proc[p].args.name
           known == name \in DOMAIN KeyRegistry.keys
       IN ( \/ Returns(p, "add_key") /\ known
            \/ Returns(p, "set_default_key") /\ ~known
            \/ Returns(p, "remove_key") /\ ~known )
          => /\ proc'[p].ret = "Err"
             /\ proc'[p].err = IF proc[p].pc = "add_key" THEN "key exists" ELSE "not found"
             /\ proc'[p].saves = proc[p].saves
             /\ keys_toml' = keys_toml
             /\ KeyRegistry' = KeyRegistry]_vars

\* set_default_key of an unknown name has been refused while another key is
\* the default
C21_Witness ==
  /\ proc[Cli].op = "set_default_key"
  /\ proc[Cli].pc = "idle"
  /\ proc[Cli].ret = "Err"
  /\ proc[Cli].err = "not found"
  /\ proc[Cli].args.name \notin DOMAIN KeyRegistry.keys
  /\ KeyRegistry.default_key # None
  /\ KeyRegistry.default_key[1] \in DOMAIN KeyRegistry.keys

\* C22: when run has resolved its secret key, it is the secret of the key
\* named by --key if one was given, whatever the default is, and otherwise
\* the secret of the default key of keys.toml; an unknown --key ends run with
\* an error and no secret; keys.toml changes during the resolution only by
\* the add of a generated key, which happens only when no --key was given
\* and the registry is empty, and which makes that key the default.
C22_IdentityResolution ==
  /\ [](LET K == KeyRegistry
        IN /\ run.pc = "resolved" =>
                /\ run.sk # None
                /\ IF run.key # None
                     THEN /\ run.key[1] \in DOMAIN K.keys
                          /\ run.sk = Some(K.keys[run.key[1]].secret_key)
                     ELSE /\ K.default_key # None
                          /\ K.default_key[1] \in DOMAIN K.keys
                          /\ run.sk = Some(K.keys[K.default_key[1]].secret_key)
           /\ (run.key # None /\ run.key[1] \notin DOMAIN K.keys
                 /\ run.pc \notin {"idle", "get_key"})
                => (run.pc = "done" /\ run.ret = "Err" /\ run.sk = None)
           /\ run.err = "key not found" => run.key # None)
  /\ [][LET K == KeyRegistry
        IN /\ (run.pc # "generated" /\ run'.pc = "generated")
                => /\ run.key = None
                   /\ DOMAIN K.keys = {}
                   /\ K.default_key = None
           /\ (run.pc # "idle" /\ keys_toml' # keys_toml)
                => /\ run.pc = "generated"
                   /\ DOMAIN K.keys = {}
                   /\ DOMAIN KeyRegistry'.keys = {"default"}
                   /\ KeyRegistry'.default_key = Some("default")
                   /\ Some(KeyRegistry'.keys["default"].secret_key) = run.sk]_vars

\* run was given --key k1 while another key with another secret is the
\* default, and has taken the secret of k1
C22_Witness ==
  /\ run.pc = "resolved"
  /\ run.key = Some("k1")
  /\ KeyRegistry.default_key = Some("k2")
  /\ KeyRegistry.keys["k1"].secret_key # KeyRegistry.keys["k2"].secret_key
  /\ run.sk = Some(KeyRegistry.keys["k1"].secret_key)

\* C23: a catch that the server answered NotFound ends with an error result of
\* run (a non-zero exit, no "File received successfully"); main.rs turns run's
\* Err into the non-zero exit and run prints the confirmation only before Ok
C23_NotFoundCatchFails ==
  (run.pc = "done" /\ client.pc = "done" /\ client.code = "NotFound")
    => run.ret = "Err"

\* process p enters a manager call in this step: its load has run
Loads(p) == proc[p].pc = "idle" /\ proc'[p] # proc[p]

\* C24: a host call that finds no hosts.toml works on the empty registry; a
\* host call that finds a hosts.toml that does not parse returns the parse
\* error at once, without a save and with the file left as it was, and none of
\* the steps of the call after the load is taken.
C24_LoadMissingOrUnparsable ==
  [][\A p \in Procs :
       Loads(p) =>
         /\ hosts_toml.kind = "missing"
              => /\ proc'[p].pc = proc'[p].op
                 /\ proc'[p].config = DefaultHostConfig
                 /\ DOMAIN proc'[p].config.hosts = {}
         /\ hosts_toml.kind = "garbage"
              => /\ proc'[p].pc = "idle"
                 /\ proc'[p].ret = "Err"
                 /\ proc'[p].err = "parse"
                 /\ proc'[p].saves = proc[p].saves
                 /\ hosts_toml' = hosts_toml]_vars

\* a host was registered, the file was spoilt, and the next add_host failed on
\* the load and left the file spoilt
C24_Witness ==
  /\ hosts_toml.kind = "garbage"
  /\ proc[Cli].pc = "idle"
  /\ proc[Cli].op = "add_host"
  /\ proc[Cli].ret = "Err"
  /\ proc[Cli].err = "parse"
  /\ proc[Cli].saves = 1

\* C25: the save of an add_host writes the registry its own load returned
\* plus its own host and nothing else, whatever the file holds by then: a host
\* that another process saved between the load and the save is lost, and both
\* calls return Ok (the state of C25_Witness).
C25_SaveOverwrites ==
  [][\A p \in Procs :
       (Returns(p, "add_host") /\ proc'[p].ret = "Ok")
         => /\ hosts_toml'.kind = "toml"
            /\ DOMAIN hosts_toml'.doc.hosts =
                 DOMAIN proc[p].config.hosts \cup {proc[p].args.alias}
            /\ \A a \in DOMAIN proc[p].config.hosts :
                 hosts_toml'.doc.hosts[a] = proc[p].config.hosts[a]]_vars

\* both processes loaded the empty registry before either saved; both have
\* returned Ok from add_host with distinct aliases and identities, each after
\* one save, and hosts.toml holds one host only
C25_Witness ==
  /\ \A p \in Procs : /\ proc[p].pc = "idle"
                       /\ proc[p].op = "add_host"
                       /\ proc[p].ret = "Ok"
                       /\ proc[p].n = 1
                       /\ proc[p].saves = 1
  /\ \A p, q \in Procs :
       p # q => /\ proc[p].args.alias # proc[q].args.alias
                /\ proc[p].args.public_key # proc[q].args.public_key
  /\ Cardinality(DOMAIN Registry) = 1

\* C26: ResponseCode::from_u8 is defined on every byte: 0, 1 and 2 decode to
\* Ok, NotFound and Error, each of the other 253 bytes decodes to the explicit
\* unknown value None, and from_u8(to_u8(c)) = Some(c) for the three codes;
\* the code a catch acts on is that decoding of the first response byte.
C26_ResponseCodeTotal ==
  /\ FromU8(CodeOk) = "Ok"
  /\ FromU8(CodeNotFound) = "NotFound"
  /\ FromU8(CodeError) = "Error"
  /\ \A b \in 0..255 :
       /\ FromU8(b) \in {"Ok", "NotFound", "Error", "None"}
       /\ b \notin {CodeOk, CodeNotFound, CodeError} => FromU8(b) = "None"
  /\ \A c \in {"Ok", "NotFound", "Error"} :
       /\ ToU8(c) \in 0..255
       /\ FromU8(ToU8(c)) = c
  /\ client.code # "none" =>
       /\ Len(s2c[ClientConn].data) >= 1
       /\ client.code = FromU8(s2c[ClientConn].data[1])

\* the catch has read the byte 255 as its response code and decoded it to the
\* unknown value
C26_Witness ==
  /\ client.code = "None"
  /\ s2c[ClientConn].data[1] = 255

\* C27: no handler that is suspended in a write to its response stream holds
\* a Ref into the ticket registry, and so no insert of send waits for the
\* shard of its key while a handler is suspended.
C27_NoRefAcrossWrite ==
  /\ \A h \in Handlers :
       handler[h].pc \in {"w_ok_code", "w_ok_len", "w_ok_body",
                          "w_nf_code", "w_nf_len", "w_err_code", "w_err_len"}
         => ~HoldsRef(h)
  /\ dropper.pc = "insert" => ~ShardLocked(SendInsertKey(dropper.ticket[1]))

\* C28: on a stream that delivers every byte and fails no operation, a catch
\* that has its connection ends with receive returned and the handler closed;
\* a client that waits for the acknowledgment of its request has it without a
\* further step of the handler, and so has a handler that waits for the
\* acknowledgment of its response: neither waits for the other.
C28_ExchangeTerminates ==
  /\ [](client.pc = "stopped" => Acked(c2s[ClientConn],
           client.server = "handler" => handler[ClientConn].pc = "closed"))
  /\ [](handler[ClientConn].pc = "stopped"
          => Acked(s2c[ClientConn], peer[ClientConn] = "client" => client.pc = "done"))
  /\ (client.pc = "open_bi")
       ~> (client.pc = "done" /\ handler[ClientConn].pc = "closed")

\* the exchange is over on both sides with the Ok response read to its end
C28_Witness ==
  /\ client.pc = "done"
  /\ client.ret = "Ok"
  /\ client.code = "Ok"
  /\ handler[ClientConn].pc = "closed"
  /\ handler[ClientConn].ret = "Ok"

\* C29: a handler that returns Ok after it wrote a response (Ok, NotFound or
\* the Error of a zero-length query) returns from the await of send.stopped():
\* the client has acknowledged or stopped the response stream by then.
C29_StoppedBeforeReturn ==
  [][\A h \in Handlers :
       ( /\ handler[h].pc # "closed"
         /\ handler'[h].pc = "closed"
         /\ handler'[h].ret = "Ok"
         /\ Len(s2c'[h].data) > 0 )
         => /\ handler[h].pc = "stopped"
            /\ Acked(s2c[h], peer[h] = "client" => client.pc = "done")]_vars

\* C30: a catch that read an Ok response whose ticket carries a hash string
\* that is no digest ends with receive returning an error; the process is not
\* aborted and nothing was downloaded or exported.
C30_InvalidHashIsError ==
  ( /\ client.pc = "done"
    /\ client.code = "Ok"
    /\ client.ticket # None
    /\ ~HashStrValid(client.ticket[1].hash) )
    => /\ client.ret = "Err"
       /\ client.download = None
       /\ client.export = None

\* the default of a key configuration names one of its keys, and is None
\* exactly when there is no key
DefaultNamesKey(config) ==
  /\ config.default_key # None => config.default_key[1] \in DOMAIN config.keys
  /\ config.default_key = None <=> DOMAIN config.keys = {}

\* C31: whatever add_key (generate_key is add_key with a fresh secret),
\* remove_key and set_default_key calls were made since keys.toml did not
\* exist, the default of the registry is None or the name of a key of the
\* registry, and it is None exactly when the registry holds no key; the same
\* is true of the configuration a key call has loaded.
C31_DefaultNamesKey ==
  /\ DefaultNamesKey(KeyRegistry)
  /\ \A p \in Procs :
       proc[p].pc \in {"add_key", "remove_key", "set_default_key"}
         => DefaultNamesKey(proc[p].config)

\* two keys were added and the one added first, the default, was removed:
\* the default is the key that is left
C31_Witness ==
  /\ proc[Cli].pc = "idle"
  /\ proc[Cli].op = "remove_key"
  /\ proc[Cli].ret = "Ok"
  /\ proc[Cli].n = 3
  /\ proc[Cli].saves = 3
  /\ Cardinality(DOMAIN KeyRegistry.keys) = 1
  /\ KeyRegistry.default_key # None
  /\ proc[Cli].value # None
  /\ proc[Cli].value[1].created_at
       < KeyRegistry.keys[KeyRegistry.default_key[1]].created_at

\* C32: a subcommand handler starts only from the point of run where the
\* secret key is resolved, and the key registry is not empty then; a lookup
\* of the default that finds none never resolves without the add of the
\* generated key, after which keys.toml holds the key "default" as the
\* default; and when `key generate N` or `key add N` without --default has
\* succeeded in an invocation that generated its key (it was given no --key
\* and met a registry without keys), the default is "default", the registry
\* holds "default" and N, and N is not the default.
C32_ResolvedBeforeDispatch ==
  /\ [][LET K == KeyRegistry
        IN /\ (run.pc \notin CommandPcs /\ run'.pc \in CommandPcs)
                => /\ run.pc = "resolved"
                   /\ run.sk # None
                   /\ DOMAIN K.keys # {}
                   /\ run.key = None => GetDefaultKey(K) # None
           /\ (run.pc = "get_default_key" /\ run'.pc = "resolved")
                => GetDefaultKey(K) # None
           /\ (run.pc = "get_default_key" /\ GetDefaultKey(K) = None
                 /\ run'.pc # run.pc)
                => (run'.pc = "generated" /\ proc'[Cli].args.name = "default")
           /\ (run.pc = "generated" /\ run'.pc = "resolved")
                => /\ keys_toml.kind = "toml"
                   /\ K.default_key = Some("default")
                   /\ "default" \in DOMAIN K.keys
                   /\ run.sk = Some(K.keys["default"].secret_key)]_vars
  /\ [](LET K == KeyRegistry
        IN ( /\ run.pc = "done"
             /\ run.ret = "Ok"
             /\ run.generated
             /\ proc[Cli].op = "add_key" )
             => /\ K.default_key = Some("default")
                /\ run.key = None
                /\ proc[Cli].args.name # "default"
                /\ DOMAIN K.keys = {"default", proc[Cli].args.name})

\* `poof key add k1 <sk>` on a machine without keys.toml has ended with Ok:
\* the registry holds "default" and k1, and "default" is the default
C32_Witness ==
  /\ run.pc = "done"
  /\ run.ret = "Ok"
  /\ run.key = None
  /\ run.generated
  /\ proc[Cli].op = "add_key"
  /\ proc[Cli].args.name = "k1"
  /\ proc[Cli].n = 3
  /\ proc[Cli].saves = 2
  /\ DOMAIN KeyRegistry.keys = {"default", "k1"}
  /\ KeyRegistry.default_key = Some("default")

\* C33: when rename_host(old, new) returns Ok, hosts.toml has no entry under
\* old and has an entry under new whose public key, description, added_at,
\* last_seen and metadata are those the entry under old had, with new as its
\* alias; every other host is as it was and the number of hosts is the same.
C33_RenameFrame ==
  [][\A p \in Procs :
       LET old == proc[p].args.alias
           new == proc[p].args.new_alias
       IN (Returns(p, "rename_host") /\ proc'[p].ret = "Ok")
          => /\ old \in DOMAIN Registry
             /\ old \notin DOMAIN Registry'
             /\ new \in DOMAIN Registry'
             /\ Registry'[new].alias = new
             /\ Registry'[new].public_key = Registry[old].public_key
             /\ Registry'[new].description = Registry[old].description
             /\ Registry'[new].added_at = Registry[old].added_at
             /\ Registry'[new].last_seen = Registry[old].last_seen
             /\ Registry'[new].metadata = Registry[old].metadata
             /\ DOMAIN Registry' = (DOMAIN Registry \ {old}) \cup {new}
             /\ \A a \in DOMAIN Registry \ {old} : Registry'[a] = Registry[a]
             /\ Cardinality(DOMAIN Registry') = Cardinality(DOMAIN Registry)]_vars

\* a host that was added earlier and seen since has been renamed to c next to
\* another host: it kept its added_at and its last_seen
C33_Witness ==
  /\ proc[Cli].pc = "idle"
  /\ proc[Cli].op = "rename_host"
  /\ proc[Cli].ret = "Ok"
  /\ proc[Cli].args.new_alias = "c"
  /\ DOMAIN Registry = {"b", "c"}
  /\ Registry["c"].alias = "c"
  /\ Registry["c"].last_seen # None
  /\ Registry["c"].added_at < now
  /\ Registry["b"].last_seen = None


====
